---- MODULE Spec2Model ----
(***************************************************************************)
(* Worksheet-to-manual conversion pipeline (TLM-Generator backend).        *)
(*                                                                         *)
(* Texts are sequences of one-character strings over a small alphabet.     *)
(* A job is admitted by WorksheetController.createWorksheet and processed  *)
(* in the background by WorksheetController.processWorksheet; every await  *)
(* of the JavaScript code is one step: the step in which the awaited       *)
(* operation completes also runs the synchronous code up to the next       *)
(* await, i.e. it issues the next external operation.                      *)
(***************************************************************************)
EXTENDS Integers, Sequences, FiniteSets, TLC

\* ------------------------------------------------------------------------
\* Bounds of the model
\* ------------------------------------------------------------------------
\* number of jobs admitted concurrently in the multi-job specification
NumJobs == 2

JobIds == 1..NumJobs

\* ------------------------------------------------------------------------
\* Program constants
\* ------------------------------------------------------------------------
\* latexGenerator.js: the defaults of CHUNK_SIZE and MAX_CHUNK_DEPTH
DefaultChunkSize == 4
DefaultMaxChunkDepth == 2

\* utils/constants.js WORKSHEET_STATUS
EXTRACTING == "extracting"
GENERATING == "generating"
COMPILING == "compiling"
READY == "ready"
FAILED == "failed"

WORKSHEET_STATUS == {EXTRACTING, GENERATING, COMPILING, READY, FAILED}

NULL == "null"

\* latex_content of a row that has none
NoLatex == <<"null">>

\* storage paths of the two output artifacts (worksheets/<id>/manual.pdf, .docx)
PdfPath == "manual.pdf"
DocxPath == "manual.docx"

\* the row of a job that is not in table worksheets
NoRecord == [exists |-> FALSE, status |-> NULL, latex_content |-> NoLatex,
             output_pdf_storage_path |-> NULL, output_docx_storage_path |-> NULL,
             updated_at |-> 0]

VARIABLES
    pc,          \* per job: the operation createWorksheet/processWorksheet awaits
    response,    \* per job: HTTP status answered by createWorksheet (0 = none yet)
    record,      \* per job: the row of table worksheets, or NoRecord
    history,     \* per job: the distinct statuses persisted so far, in order
    inflight,    \* per job: external operations issued and not yet returned
    storage,     \* per job: storage objects of the job that exist
    fileType,    \* per job: file extension of the upload
    extractedText, \* per job: local extractedText of processWorksheet
    latexCode,   \* per job: local latexCode of processWorksheet
    outputResult, \* per job: local outputResult.path
    docxResult,  \* per job: local docxResult.path
    ocrOut,      \* per job: what the OCR subprocess answered (extractFromPdf)
    caught,      \* per job: the catch block of processWorksheet was entered
    returned,    \* per job: the stage calls (extractText, generate) that returned
    docTexts,    \* the texts the converters can find in the uploaded documents
    scratch,     \* per job: the scratch directories of the job that exist
    compileError, \* per job: the error of PDFCompiler.compile the catch block holds
    gen          \* the generate call of job 1: model, chunks, outputs, call stack

VARIABLES
    CHUNK_SIZE,       \* latexGenerator.js CHUNK_SIZE (WORKSHEET_CHUNK_SIZE)
    MAX_CHUNK_DEPTH,  \* latexGenerator.js MAX_CHUNK_DEPTH (WORKSHEET_MAX_CHUNK_DEPTH)
    FALLBACK_MODELS,  \* latexGenerator.js FALLBACK_MODELS: the model names, in order
    GEMINI_API_KEY,   \* latexGenerator.js GEMINI_API_KEY is set
    GEMINI_FALLBACK,  \* process.env.GEMINI_FALLBACK === 'true'
    LATEX_KEEP_TEMP   \* process.env.LATEX_KEEP_TEMP === 'true'

cfgVars == <<CHUNK_SIZE, MAX_CHUNK_DEPTH, FALLBACK_MODELS, GEMINI_API_KEY, GEMINI_FALLBACK,
             LATEX_KEEP_TEMP>>

VARIABLES
    ommlXsltFailed,   \* FileExtractor._ommlXsltFailed, shared by the whole process
    ommlXsltText      \* FileExtractor._ommlXsltText is loaded

extractorVars == <<ommlXsltFailed, ommlXsltText>>

pipeVars == <<pc, response, record, history, inflight, storage, fileType,
              extractedText, latexCode, outputResult, docxResult, ocrOut, caught,
              returned, docTexts, scratch, compileError, gen>>

\* the variables of the scratch directories and of the compile error
fsVars == <<scratch, compileError>>

VARIABLES
    callArgs,         \* the arguments of a function called on its own
    callResult        \* what that call returned

callVars == <<callArgs, callResult>>

vars == <<pipeVars, cfgVars, extractorVars, callVars>>

\* ------------------------------------------------------------------------
\* Texts: sequences of one-character strings.  A few characters stand for a
\* whole phrase of the real text:
\*   "T"  SPECTROPY-IIT FOUNDATION MENTOR'S MANUAL   (title banner)
\*   "W"  Worksheet:            "Y"  Syllabus Topics Covered:
\*   "A"  Answer Key and Detailed Solutions
\*   "F"  a code fence (three backquotes)      "x"  any other letter
\* ------------------------------------------------------------------------
\*   "M"  a watermark phrase (SPECTROPY, Maestro program)
\*   "J"  a level banner prefix (CUQ, JEE MAIN / JEE MAIN LEVEL / JEE ADVANCED LEVEL)
\*   "~"  a no-break space      "S"  superscript two      "s"  subscript two
\*   "E"  Equation:
\*   "D"  MATHEMATICAL BOLD DIGIT ONE      "X"  MATHEMATICAL ITALIC SMALL X
Digits == {"1", "2", "3", "4", "5", "6", "7", "8", "9"}

DigitChar == <<"1", "2", "3", "4", "5", "6", "7", "8", "9">>

\* JavaScript \s (and the characters String.prototype.trim removes)
IsSpace(c) == c \in {" ", "\n", "\r", "~"}

\* JavaScript [a-zA-Z]
IsLetter(c) == c \in {"x", "Q", "T", "W", "Y", "A", "M", "J", "E"}

\* JavaScript \d
IsDigit(c) == c \in Digits

RECURSIVE SkipSpaces(_, _)
\* position after the greedy \s* that starts at position p
SkipSpaces(s, p) ==
    IF p <= Len(s) /\ IsSpace(s[p]) THEN SkipSpaces(s, p + 1) ELSE p

RECURSIVE SkipDigits(_, _)
\* position after the greedy \d* that starts at position p
SkipDigits(s, p) ==
    IF p <= Len(s) /\ IsDigit(s[p]) THEN SkipDigits(s, p + 1) ELSE p

RECURSIVE TrimStart(_)
TrimStart(s) ==
    IF s # <<>> /\ IsSpace(Head(s)) THEN TrimStart(Tail(s)) ELSE s

RECURSIVE TrimEnd(_)
TrimEnd(s) ==
    IF s # <<>> /\ IsSpace(s[Len(s)]) THEN TrimEnd(SubSeq(s, 1, Len(s) - 1)) ELSE s

\* String.prototype.trim
Trim(s) == TrimEnd(TrimStart(s))

RECURSIVE SplitLinesFrom(_, _, _)
SplitLinesFrom(s, p, cur) ==
    IF p > Len(s) THEN <<cur>>
    ELSE IF s[p] = "\n" THEN <<cur>> \o SplitLinesFrom(s, p + 1, <<>>)
    ELSE SplitLinesFrom(s, p + 1, Append(cur, s[p]))

\* text.split(/\r?\n/)
SplitLines(s) == SplitLinesFrom(s, 1, <<>>)

RECURSIVE Join(_, _)
\* Array.prototype.join
Join(parts, sep) ==
    IF parts = <<>> THEN <<>>
    ELSE IF Len(parts) = 1 THEN parts[1]
    ELSE parts[1] \o sep \o Join(Tail(parts), sep)

RECURSIVE FilterNonEmpty(_)
\* Array.prototype.filter(Boolean) on an array of strings
FilterNonEmpty(parts) ==
    IF parts = <<>> THEN <<>>
    ELSE IF Head(parts) = <<>> THEN FilterNonEmpty(Tail(parts))
    ELSE <<Head(parts)>> \o FilterNonEmpty(Tail(parts))

\* \s*(?:Q\s*)?\d+[\.\)]\s+ matched at position p: the position after the
\* match, or 0 when it does not match there
MarkerBodyEnd(s, p) ==
    LET AfterPunct(q3, q4) == IF q4 > q3 + 1 THEN q4 ELSE 0
        AfterDigits(q2, q3) ==
            IF q3 > q2 /\ q3 <= Len(s) /\ s[q3] \in {".", ")"}
            THEN AfterPunct(q3, SkipSpaces(s, q3 + 1)) ELSE 0
        AfterQ(q2) == AfterDigits(q2, SkipDigits(s, q2))
        AfterSpaces(q1) ==
            AfterQ(IF q1 <= Len(s) /\ s[q1] = "Q" THEN SkipSpaces(s, q1 + 1) ELSE q1)
    IN  AfterSpaces(SkipSpaces(s, p))

\* /(^|\n)\s*(?:Q\s*)?(\d+)[\.\)]\s+/gi matched at position p (no m flag:
\* ^ is the start of the text only)
MarkerEnd(s, p) ==
    LET AtStart(end) == IF end # 0 THEN end
                        ELSE IF s[p] = "\n" THEN MarkerBodyEnd(s, p + 1) ELSE 0
    IN  IF p > Len(s) THEN 0
        ELSE IF p = 1 THEN AtStart(MarkerBodyEnd(s, 1))
        ELSE IF s[p] = "\n" THEN MarkerBodyEnd(s, p + 1)
        ELSE 0

RECURSIVE MarkerMatches(_, _)
\* start positions of the successive matches of the marker regex from p on
MarkerMatches(s, p) ==
    LET From(end) == IF end # 0 THEN <<p>> \o MarkerMatches(s, end)
                     ELSE MarkerMatches(s, p + 1)
    IN  IF p > Len(s) THEN <<>> ELSE From(MarkerEnd(s, p))

countQuestions(text) == Len(MarkerMatches(text, 1))

RECURSIVE SlicesExclusive(_, _, _)
\* the chunk loop slicing questions.slice(i, i + size - 1)
SlicesExclusive(questions, from, size) ==
    IF from > Len(questions) THEN <<>>
    ELSE LET to == IF from + size - 2 < Len(questions)
                   THEN from + size - 2 ELSE Len(questions)
         IN  <<Join(SubSeq(questions, from, to), <<"\n", "\n">>)>>
             \o SlicesExclusive(questions, from + size, size)

RECURSIVE Slices(_, _, _)
\* the slices questions.slice(i, i + size) for i = from, from + size, ...
\* each joined with a blank line
Slices(questions, from, size) ==
    IF from > Len(questions) THEN <<>>
    ELSE LET to == IF from + size - 1 < Len(questions)
                   THEN from + size - 1 ELSE Len(questions)
         IN  <<Join(SubSeq(questions, from, to), <<"\n", "\n">>)>>
             \o Slices(questions, from + size, size)

\* the question blocks of a trimmed text: from each marker match to the
\* next one (or the end of the text), trimmed, empty blocks dropped
QuestionBlocks(source) ==
    LET Blocks(matches) ==
            [i \in 1..Len(matches) |->
                Trim(SubSeq(source, matches[i],
                            IF i + 1 <= Len(matches)
                            THEN matches[i + 1] - 1 ELSE Len(source)))]
    IN  FilterNonEmpty(Blocks(MarkerMatches(source, 1)))

\* chunkWorksheet putting every question block in a chunk of its own
chunkWorksheetBlockPerChunk(text) ==
    LET Split(source, matches) ==
            IF source = <<>> THEN <<>>
            ELSE IF matches = <<>> THEN <<source>>
            ELSE QuestionBlocks(source)
        From(source) == Split(source, MarkerMatches(source, 1))
    IN  From(Trim(text))

chunkWorksheet(text) ==
    LET Chunks(questions) ==
            IF Len(questions) <= CHUNK_SIZE
            THEN <<Join(questions, <<"\n", "\n">>)>>
            ELSE Slices(questions, 1, CHUNK_SIZE)
        Split(source, matches) ==
            IF source = <<>> THEN <<>>
            ELSE IF matches = <<>> THEN <<source>>
            ELSE Chunks(QuestionBlocks(source))
        From(source) == Split(source, MarkerMatches(source, 1))
    IN  From(Trim(text))

RECURSIVE SplitAtMarkers(_, _, _)
\* source.split(/\n(?=\s*(?:Q\s*)?\d+[\.\)]\s+)/i)
SplitAtMarkers(s, p, cur) ==
    IF p > Len(s) THEN <<cur>>
    ELSE IF s[p] = "\n" /\ MarkerBodyEnd(s, p + 1) # 0
         THEN <<cur>> \o SplitAtMarkers(s, p + 1, <<>>)
    ELSE SplitAtMarkers(s, p + 1, Append(cur, s[p]))

\* splitChunkInHalf with mid = Math.floor(parts.length / 2)
splitChunkInHalfFloor(text) ==
    LET Halves(parts, mid) ==
            FilterNonEmpty(<<Trim(Join(SubSeq(parts, 1, mid), <<"\n">>)),
                             Trim(Join(SubSeq(parts, mid + 1, Len(parts)), <<"\n">>))>>)
        Split(source, parts) ==
            IF source = <<>> THEN <<>>
            ELSE IF Len(parts) <= 1 THEN <<source>>
            ELSE Halves(parts, Len(parts) \div 2)
        From(source) == Split(source, SplitAtMarkers(source, 1, <<>>))
    IN  From(Trim(text))

splitChunkInHalf(text) ==
    LET Halves(parts, mid) ==
            FilterNonEmpty(<<Trim(Join(SubSeq(parts, 1, mid), <<"\n">>)),
                             Trim(Join(SubSeq(parts, mid + 1, Len(parts)), <<"\n">>))>>)
        Split(source, parts) ==
            IF source = <<>> THEN <<>>
            ELSE IF Len(parts) <= 1 THEN <<source>>
            ELSE Halves(parts, (Len(parts) + 1) \div 2)
        From(source) == Split(source, SplitAtMarkers(source, 1, <<>>))
    IN  From(Trim(text))

\* the four header banner lines, as stripHeader recognises them
IsTitleLine(line) == Trim(line) = <<"T">>
IsAnswerKeyLine(line) == Trim(line) = <<"A">>
IsWorksheetLine(line) == Trim(line) # <<>> /\ Head(Trim(line)) = "W"
IsSyllabusLine(line) == Trim(line) # <<>> /\ Head(Trim(line)) = "Y"

IsHeaderLine(line) ==
    IsTitleLine(line) \/ IsAnswerKeyLine(line) \/ IsWorksheetLine(line) \/ IsSyllabusLine(line)

RECURSIVE DropHeaderLines(_)
DropHeaderLines(lines) ==
    IF lines = <<>> THEN <<>>
    ELSE IF IsHeaderLine(Head(lines)) THEN DropHeaderLines(Tail(lines))
    ELSE <<Head(lines)>> \o DropHeaderLines(Tail(lines))

RECURSIVE DropExactHeaderLines(_)
DropExactHeaderLines(lines) ==
    IF lines = <<>> THEN <<>>
    ELSE IF Trim(Head(lines)) \in {<<"T">>, <<"A">>, <<"W">>, <<"Y">>}
         THEN DropExactHeaderLines(Tail(lines))
    ELSE <<Head(lines)>> \o DropExactHeaderLines(Tail(lines))

\* stripHeader comparing every banner line for equality, the Worksheet: and
\* Syllabus Topics Covered: lines included
stripHeaderExactOnly(text) == Trim(Join(DropExactHeaderLines(SplitLines(text)), <<"\n">>))

stripHeader(text) == Trim(Join(DropHeaderLines(SplitLines(text)), <<"\n">>))

RECURSIVE StripAll(_)
\* rest.map((text) => this.stripHeader(text))
StripAll(outputs) ==
    IF outputs = <<>> THEN <<>>
    ELSE <<stripHeader(Head(outputs))>> \o StripAll(Tail(outputs))

mergeChunkOutputs(outputs) ==
    IF outputs = <<>> THEN <<>>
    ELSE Trim(Join(<<Head(outputs)>> \o FilterNonEmpty(StripAll(Tail(outputs))),
                   <<"\n", "\n">>))

RECURSIVE CollapseSpaces(_)
\* replace(/\s+/g, ' ')
CollapseSpaces(s) ==
    IF s = <<>> THEN <<>>
    ELSE IF IsSpace(Head(s)) THEN <<" ">> \o CollapseSpaces(TrimStart(s))
    ELSE <<Head(s)>> \o CollapseSpaces(Tail(s))

RECURSIVE DedupLines(_, _)
DedupLines(lines, last) ==
    IF lines = <<>> THEN <<>>
    ELSE LET normalized == CollapseSpaces(Trim(Head(lines)))
         IN  IF normalized # <<>> /\ normalized = last
             THEN DedupLines(Tail(lines), last)
             ELSE <<Head(lines)>> \o DedupLines(Tail(lines), normalized)

removeDuplicateLines(text) == Trim(Join(DedupLines(SplitLines(text), <<>>), <<"\n">>))

RECURSIVE RemoveFences(_, _)
\* the two fence replaces of cleanGeneratedText (regex ^FFF[\s\S]*?\n? with
\* flags gm, F a backquote): a fence at a line start goes, with the
\* newline that directly follows it
RemoveFences(s, p) ==
    IF p > Len(s) THEN <<>>
    ELSE IF s[p] = "F" /\ (p = 1 \/ s[p - 1] = "\n")
         THEN IF p + 1 <= Len(s) /\ s[p + 1] = "\n"
              THEN RemoveFences(s, p + 2) ELSE RemoveFences(s, p + 1)
    ELSE <<s[p]>> \o RemoveFences(s, p + 1)

cleanGeneratedText(text) ==
    removeDuplicateLines(Trim(RemoveFences(RemoveFences(text, 1), 1)))
\* ------------------------------------------------------------------------
\* FileExtractor
\* ------------------------------------------------------------------------
RECURSIVE ReplaceCrLf(_)
\* replace(/\r\n/g, '\n')
ReplaceCrLf(s) ==
    IF s = <<>> THEN <<>>
    ELSE IF Len(s) >= 2 /\ s[1] = "\r" /\ s[2] = "\n"
         THEN <<"\n">> \o ReplaceCrLf(SubSeq(s, 3, Len(s)))
    ELSE <<Head(s)>> \o ReplaceCrLf(Tail(s))

RECURSIVE SkipNewlines(_, _)
SkipNewlines(s, p) ==
    IF p <= Len(s) /\ s[p] = "\n" THEN SkipNewlines(s, p + 1) ELSE p

RECURSIVE CollapseBlankLines(_, _)
\* replace(/\n{3,}/g, '\n\n')
CollapseBlankLines(s, p) ==
    IF p > Len(s) THEN <<>>
    ELSE IF s[p] = "\n"
         THEN LET q == SkipNewlines(s, p)
              IN  (IF q - p >= 3 THEN <<"\n", "\n">> ELSE SubSeq(s, p, q - 1))
                  \o CollapseBlankLines(s, q)
    ELSE <<s[p]>> \o CollapseBlankLines(s, p + 1)

Contains(s, c) == \E i \in 1..Len(s) : s[i] = c

AllDigits(s) == s # <<>> /\ \A i \in 1..Len(s) : IsDigit(s[i])

\* the filter callback of normalizeMathText: TRUE when the line is kept
KeepLine(line) ==
    LET trimmed == Trim(line)
    IN  IF trimmed = <<>> THEN TRUE
        ELSE IF Contains(trimmed, "M") \/ Contains(trimmed, "T") THEN FALSE
        ELSE IF Head(trimmed) = "J" THEN FALSE
        ELSE IF AllDigits(trimmed) THEN FALSE
        ELSE TRUE

RECURSIVE FilterLines(_)
FilterLines(lines) ==
    IF lines = <<>> THEN <<>>
    ELSE IF KeepLine(Head(lines)) THEN <<Head(lines)>> \o FilterLines(Tail(lines))
    ELSE FilterLines(Tail(lines))

RECURSIVE ReplaceScripts(_)
\* the superscript and subscript replaces of normalizeMathText
ReplaceScripts(s) ==
    IF s = <<>> THEN <<>>
    ELSE IF Head(s) = "S" THEN <<"^", "2">> \o ReplaceScripts(Tail(s))
    ELSE IF Head(s) = "s" THEN <<"_", "2">> \o ReplaceScripts(Tail(s))
    ELSE <<Head(s)>> \o ReplaceScripts(Tail(s))

\* \^\s*\+?\s*(\d+) matched at position p (s[p] = "^"): <<position of the
\* first digit, position after the last digit>>, or <<0, 0>>
PowerMatch(s, p) ==
    LET q1 == SkipSpaces(s, p + 1)
        q2 == IF q1 <= Len(s) /\ s[q1] = "+" THEN SkipSpaces(s, q1 + 1) ELSE q1
        q3 == SkipDigits(s, q2)
    IN  IF p <= Len(s) /\ s[p] = "^" /\ q3 > q2 THEN <<q2, q3>> ELSE <<0, 0>>

\* \(\s*-\s*1\s*\)\s* matched at position p: the position after it, or 0
MinusOneEnd(s, p) ==
    LET q1 == SkipSpaces(s, p + 1)
        q2 == SkipSpaces(s, q1 + 1)
        q3 == SkipSpaces(s, q2 + 1)
        q4 == SkipSpaces(s, q3 + 1)
    IN  IF /\ p <= Len(s) /\ s[p] = "("
           /\ q1 <= Len(s) /\ s[q1] = "-"
           /\ q2 <= Len(s) /\ s[q2] = "1"
           /\ q3 <= Len(s) /\ s[q3] = ")"
        THEN q4 ELSE 0

RECURSIVE ReplaceMinusOnePower(_, _)
\* replace(/\(\s*-\s*1\s*\)\s*\^\s*\+?\s*(\d+)/g, '(-1)^$1')
ReplaceMinusOnePower(s, p) ==
    IF p > Len(s) THEN <<>>
    ELSE LET e == MinusOneEnd(s, p)
             m == IF e # 0 THEN PowerMatch(s, e) ELSE <<0, 0>>
         IN  IF m[1] # 0
             THEN <<"(", "-", "1", ")", "^">> \o SubSeq(s, m[1], m[2] - 1)
                  \o ReplaceMinusOnePower(s, m[2])
             ELSE <<s[p]>> \o ReplaceMinusOnePower(s, p + 1)

RECURSIVE ReplacePower(_, _)
\* replace(/\^\s*\+?\s*(\d+)/g, '^$1')
ReplacePower(s, p) ==
    IF p > Len(s) THEN <<>>
    ELSE LET m == PowerMatch(s, p)
         IN  IF m[1] # 0
             THEN <<"^">> \o SubSeq(s, m[1], m[2] - 1) \o ReplacePower(s, m[2])
             ELSE <<s[p]>> \o ReplacePower(s, p + 1)

RECURSIVE SkipBlanks(_, _)
\* position after the whitespace other than line feeds that starts at p
SkipBlanks(s, p) ==
    IF p <= Len(s) /\ IsSpace(s[p]) /\ s[p] # "\n" THEN SkipBlanks(s, p + 1) ELSE p

\* the lookahead (?=\d+\s*$) with flag m, at position p
DigitsToLineEnd(s, p) ==
    LET q == SkipDigits(s, p)
        r == SkipBlanks(s, q)
    IN  q > p /\ (r > Len(s) \/ s[r] = "\n")

RECURSIVE JoinPageNumbers(_, _)
\* replace(/\n(?=\d+\s*$)/gm, '')
JoinPageNumbers(s, p) ==
    IF p > Len(s) THEN <<>>
    ELSE IF s[p] = "\n" /\ DigitsToLineEnd(s, p + 1) THEN JoinPageNumbers(s, p + 1)
    ELSE <<s[p]>> \o JoinPageNumbers(s, p + 1)

RECURSIVE JoinBrokenLine(_, _)
\* replace(/\n(?=[a-zA-Z])(?<=[a-zA-Z0-9])/, ''): the first line feed that
\* is followed by a letter and, at the position after the line feed,
\* preceded by a letter or digit (the preceding character there is the
\* line feed itself)
JoinBrokenLine(s, p) ==
    IF p > Len(s) THEN <<>>
    ELSE IF /\ s[p] = "\n"
            /\ p + 1 <= Len(s) /\ IsLetter(s[p + 1])
            /\ (IsLetter(s[p]) \/ IsDigit(s[p]))
         THEN SubSeq(s, p + 1, Len(s))
    ELSE <<s[p]>> \o JoinBrokenLine(s, p + 1)

RECURSIVE ReplaceNbsp(_)
\* replace(/[\u00A0\u2007\u202F]/g, ' ')
ReplaceNbsp(s) ==
    IF s = <<>> THEN <<>>
    ELSE <<IF Head(s) = "~" THEN " " ELSE Head(s)>> \o ReplaceNbsp(Tail(s))

RECURSIVE mapMathAlphanum(_)
mapMathAlphanum(text) ==
    IF text = <<>> THEN <<>>
    ELSE <<CASE Head(text) = "X" -> "x"
             [] Head(text) = "D" -> "1"
             [] OTHER -> Head(text)>> \o mapMathAlphanum(Tail(text))

normalizeMathText(text) ==
    IF text = <<>> THEN <<>>
    ELSE LET o1 == CollapseBlankLines(ReplaceCrLf(text), 1)
             o2 == Join(FilterLines(SplitLinesFrom(o1, 1, <<>>)), <<"\n">>)
             o3 == ReplaceScripts(o2)
             o4 == ReplacePower(ReplaceMinusOnePower(o3, 1), 1)
             o5 == JoinPageNumbers(o4, 1)
             o6 == JoinBrokenLine(o5, 1)
             o7 == ReplaceNbsp(o6)
         IN  mapMathAlphanum(o7)

RECURSIVE normalizePandocText(_)
\* replace(/\\'/g, "'") and replace(/\\\$/g, '$'): a backslash before a quote
\* or a dollar sign is dropped
normalizePandocText(text) ==
    IF text = <<>> THEN <<>>
    ELSE IF Len(text) >= 2 /\ text[1] = "\\" /\ text[2] \in {"'", "$"}
         THEN <<text[2]>> \o normalizePandocText(SubSeq(text, 3, Len(text)))
    ELSE <<Head(text)>> \o normalizePandocText(Tail(text))
\* the outcome of a call: a returned text or a thrown error
Ok(t) == [ok |-> TRUE, text |-> t]
Throw == [ok |-> FALSE, text |-> <<>>]

\* the outcome of an external tool that failed (non-zero exit, timeout, ...)
ToolFailed == [failed |-> TRUE, out |-> <<>>]

\* the outcome of an external tool that succeeded with output out
ToolOk(out) == [failed |-> FALSE, out |-> out]

\* extractDocxWithPandoc: the trimmed stdout of the converter, '' when the
\* converter fails
extractDocxWithPandoc(pandoc) ==
    IF pandoc.failed THEN <<>> ELSE Trim(pandoc.out)

extractFromDocx(pandoc) ==
    LET pandocText == extractDocxWithPandoc(pandoc)
        baseText == normalizeMathText(normalizePandocText(pandocText))
    IN  IF baseText = <<>> THEN Throw ELSE Ok(baseText)

RECURSIVE EquationBlocks(_)
\* equations.map((eq) => `Equation:\n$$${eq}$$`)
EquationBlocks(equations) ==
    IF equations = <<>> THEN <<>>
    ELSE <<(<<"E", "\n", "$", "$">> \o Head(equations) \o <<"$", "$">>)>>
         \o EquationBlocks(Tail(equations))

\* extractPdfWithPix2Tex: ocr is ToolFailed (script absent, non-zero exit,
\* timeout, unparsable last line) or the equations list of the last line
extractPdfWithPix2Tex(ocr) ==
    IF ocr.failed THEN <<>>
    ELSE IF Len(ocr.out) = 0 THEN <<>>
    ELSE Join(EquationBlocks(ocr.out), <<"\n">>)

\* extractFromPdf letting a failure of the OCR sub-path through
extractFromPdfOcrRequired(ocr, pdfParse) ==
    IF pdfParse.failed \/ ocr.failed THEN Throw
    ELSE IF extractPdfWithPix2Tex(ocr) # <<>>
         THEN Ok(Trim(normalizeMathText(pdfParse.out) \o <<"\n", "\n">>
                      \o normalizeMathText(extractPdfWithPix2Tex(ocr))))
    ELSE Ok(normalizeMathText(pdfParse.out))

\* extractFromPdf: pdfParse is ToolFailed (pdf-parse throws) or data.text
extractFromPdf(ocr, pdfParse) ==
    LET pix2texText == extractPdfWithPix2Tex(ocr)
        baseText == normalizeMathText(pdfParse.out)
    IN  IF pdfParse.failed THEN Throw
        ELSE IF pix2texText # <<>>
             THEN Ok(Trim(baseText \o <<"\n", "\n">> \o normalizeMathText(pix2texText)))
        ELSE Ok(baseText)

\* extractText(buffer, fileType), given what the external tools answer
extractText(type, pandoc, ocr, pdfParse) ==
    IF type = "docx" THEN extractFromDocx(pandoc)
    ELSE IF type = "pdf" THEN extractFromPdf(ocr, pdfParse)
    ELSE Throw
\* ------------------------------------------------------------------------
\* Inputs of the pipeline specifications
\* ------------------------------------------------------------------------
\* largest number of questions of a worksheet
MaxQuestions == 3

\* the line of question k: "k. x"
QuestionLine(k) == <<DigitChar[k], ".", " ", "x">>

\* a worksheet text of n numbered questions, one per line
Worksheet(n) == Join([k \in 1..n |-> QuestionLine(k)], <<"\n">>)

\* texts the converters may produce for an uploaded document
SourceTexts == {<<>>, <<"M">>, <<"x">>} \cup {Worksheet(n) : n \in 1..MaxQuestions}

PandocOutcomes == {ToolFailed} \cup {ToolOk(t) : t \in docTexts}
PdfParseOutcomes == {ToolFailed} \cup {ToolOk(t) : t \in docTexts}
OcrOutcomes == {ToolFailed, ToolOk(<<>>), ToolOk(<< <<"x">> >>)}

\* what createWorksheet finds in the request and the environment
Requests == {"docx", "pdf", "missing_env", "no_file", "no_program", "no_chapter", "bad_type"}

\* ------------------------------------------------------------------------
\* WorksheetController
\* ------------------------------------------------------------------------
\* the row createWorksheet inserts
NewRecord == [exists |-> TRUE, status |-> EXTRACTING, latex_content |-> NoLatex,
              output_pdf_storage_path |-> NULL, output_docx_storage_path |-> NULL,
              updated_at |-> 0]

\* updateStatus without the .eq('id', id) filter: every row is written
updateStatusAllRows(table, id, status, additionalData) ==
    [k \in DOMAIN table |->
        IF table[k].exists
        THEN [f \in DOMAIN table[k] |->
                 IF f \in DOMAIN additionalData THEN additionalData[f]
                 ELSE IF f = "status" THEN status
                 ELSE table[k][f]]
        ELSE table[k]]

\* update({status, ...additionalData}).eq('id', id) on table worksheets
updateStatus(table, id, status, additionalData) ==
    [k \in DOMAIN table |->
        IF k = id /\ table[k].exists
        THEN [f \in DOMAIN table[k] |->
                 IF f \in DOMAIN additionalData THEN additionalData[f]
                 ELSE IF f = "status" THEN status
                 ELSE table[k][f]]
        ELSE table[k]]

\* the distinct statuses persisted per job, extended by the rows of table
Persisted(h, table) ==
    [k \in DOMAIN h |->
        IF table[k].exists /\ (h[k] = <<>> \/ h[k][Len(h[k])] # table[k].status)
        THEN Append(h[k], table[k].status) ELSE h[k]]

\* the timestamp new Date().toISOString() writes
Now == 1

\* the first operation extractText awaits for a file type
FirstExtractOp(type) == IF type = "docx" THEN "pandoc" ELSE "pix2tex"

\* processWorksheet with the GENERATING and COMPILING writes exchanged
PipelineOrderWritesSwapped ==
    <<"w_extracting", "extract", "w_compiling", "generate",
      "w_generating", "pdf", "up_pdf", "docx", "up_docx", "w_ready">>

\* processWorksheet with the compilers started before generate is awaited
PipelineOrderCompileFirst ==
    <<"w_extracting", "extract", "w_generating", "w_compiling", "pdf", "up_pdf",
      "docx", "up_docx", "generate", "w_ready">>

\* the awaited calls of the try block of processWorksheet, in statement order
PipelineOrder == <<"w_extracting", "extract", "w_generating", "generate",
                   "w_compiling", "pdf", "up_pdf", "docx", "up_docx", "w_ready">>

\* the call that follows call op in processWorksheet
NextOp(op) ==
    LET i == CHOOSE k \in 1..Len(PipelineOrder) : PipelineOrder[k] = op
    IN  PipelineOrder[i + 1]

\* ------------------------------------------------------------------------
\* Scratch directories and PDFCompiler.renderPdf
\* A compiler log is a list of lines; a line is a number, 0 a blank line.
\* ------------------------------------------------------------------------
\* the calls that work in a scratch directory made with mkdtemp:
\* extractDocxWithPandoc, extractPdfWithPix2Tex, PDFCompiler.renderPdf,
\* DocxCompiler.compile
ScratchOps == {"pandoc", "pix2tex", "pdf", "docx"}

\* a finally block that removes the directory only when the try block returned
CleanupOnReturn(dirs, dir, exit) == IF exit = "return" THEN dirs \ {dir} ELSE dirs

\* the finally blocks: rm(tmpDir, {recursive, force}) however the try block
\* was left (exit is "return" or "throw")
Cleanup(dirs, dir, exit) == dirs \ {dir}

\* the finally block of renderPdf, lines 80-89
CleanupPdf(dirs, exit) == IF LATEX_KEEP_TEMP THEN dirs ELSE Cleanup(dirs, "pdf", exit)

\* renderPdf keeps lines.slice(-40) of the log
LogTailLines == 40

\* no error of PDFCompiler.compile is held
NoError == [raised |-> FALSE, logTail |-> <<>>]

\* manual.log after the compiler ran: not written, two lines, or one line
\* more than the tail keeps followed by a final line feed
CompilerLogs ==
    {[exists |-> FALSE, lines |-> <<>>],
     [exists |-> TRUE, lines |-> <<1, 2>>],
     [exists |-> TRUE, lines |-> [i \in 1..(LogTailLines + 2) |->
                                     IF i = LogTailLines + 2 THEN 0 ELSE i]]}

\* how the compiler run ends (execFileAsync resolves, rejects with the exit
\* code, rejects after the timeout), whether manual.pdf exists, the log
CompilerOutcomes ==
    [exit : {"ok", "nonzero", "timeout"}, pdf : BOOLEAN, log : CompilerLogs]

RECURSIVE TrimBlankLines(_)
\* String.prototype.trim on the joined lines: blank lines at both ends go
TrimBlankLines(lines) ==
    IF lines # <<>> /\ Head(lines) = 0 THEN TrimBlankLines(Tail(lines))
    ELSE IF lines # <<>> /\ lines[Len(lines)] = 0
         THEN TrimBlankLines(SubSeq(lines, 1, Len(lines) - 1))
    ELSE lines

\* lines 68-78 keeping the first lines of the log
LogHead(log) ==
    IF ~log.exists THEN <<>>
    ELSE TrimBlankLines(SubSeq(log.lines, 1,
                               IF Len(log.lines) > LogTailLines
                               THEN LogTailLines ELSE Len(log.lines)))

\* lines 68-78: logTail of the catch block
LogTail(log) ==
    IF ~log.exists THEN <<>>
    ELSE TrimBlankLines(SubSeq(log.lines,
                               IF Len(log.lines) > LogTailLines
                               THEN Len(log.lines) - LogTailLines + 1 ELSE 1,
                               Len(log.lines)))

\* renderPdf without the test of line 60
renderPdfWithoutPdfTest(env) ==
    IF env.exit = "ok"
    THEN [ok |-> TRUE, error |-> NoError]
    ELSE [ok |-> FALSE, error |-> [raised |-> TRUE, logTail |-> LogTail(env.log)]]

\* renderPdf, lines 49-79, once the compiler run is over: the PDF is
\* returned, or the error of line 79 is thrown
renderPdf(env) ==
    IF env.exit = "ok" /\ env.pdf
    THEN [ok |-> TRUE, error |-> NoError]
    ELSE [ok |-> FALSE, error |-> [raised |-> TRUE, logTail |-> LogTail(env.log)]]

\* no generate call in progress
GenIdle == [model |-> 0, chunks |-> <<>>, ci |-> 0, outputs |-> <<>>,
            stack |-> <<>>, calls |-> <<>>]

\* no function is called on its own
NoCall == [fn |-> "none"]

\* the call has not returned yet
Pending == [done |-> FALSE, value |-> <<>>]

\* the call returned value
Returned(value) == [done |-> TRUE, value |-> value]

\* no request has been received yet
InitJobState ==
    /\ pc = [j \in JobIds |-> "idle"]
    /\ response = [j \in JobIds |-> 0]
    /\ record = [j \in JobIds |-> NoRecord]
    /\ history = [j \in JobIds |-> <<>>]
    /\ inflight = [j \in JobIds |-> {}]
    /\ storage = [j \in JobIds |-> {}]
    /\ fileType = [j \in JobIds |-> NULL]
    /\ extractedText = [j \in JobIds |-> <<>>]
    /\ latexCode = [j \in JobIds |-> <<>>]
    /\ outputResult = [j \in JobIds |-> NULL]
    /\ docxResult = [j \in JobIds |-> NULL]
    /\ ocrOut = [j \in JobIds |-> ToolFailed]
    /\ caught = [j \in JobIds |-> FALSE]
    /\ returned = [j \in JobIds |-> {}]
    /\ scratch = [j \in JobIds |-> {}]
    /\ compileError = [j \in JobIds |-> NoError]
    /\ gen = GenIdle
    /\ ommlXsltFailed = FALSE
    /\ ommlXsltText = FALSE

\* the defaults of latexGenerator.js, lines 7-12, with the API key set
InitJobs ==
    /\ InitJobState
    /\ docTexts = {<<>>, Worksheet(1)}
    /\ CHUNK_SIZE = DefaultChunkSize
    /\ MAX_CHUNK_DEPTH = DefaultMaxChunkDepth
    /\ FALLBACK_MODELS = <<>>
    /\ GEMINI_API_KEY = TRUE
    /\ GEMINI_FALLBACK = FALSE
    /\ LATEX_KEEP_TEMP = FALSE
    /\ callArgs = NoCall
    /\ callResult = Pending

\* createWorksheet, lines 65-110: validation, then the input upload is issued
Submit(j) ==
    /\ pc[j] = "idle"
    /\ \E req \in Requests :
        IF req = "missing_env"
        THEN /\ response' = [response EXCEPT ![j] = 500]
             /\ pc' = [pc EXCEPT ![j] = "rejected"]
             /\ UNCHANGED <<inflight, fileType>>
        ELSE IF req \in {"no_file", "no_program", "no_chapter", "bad_type"}
        THEN /\ response' = [response EXCEPT ![j] = 400]
             /\ pc' = [pc EXCEPT ![j] = "rejected"]
             /\ UNCHANGED <<inflight, fileType>>
        ELSE /\ fileType' = [fileType EXCEPT ![j] = req]
             /\ pc' = [pc EXCEPT ![j] = "up_input"]
             /\ inflight' = [inflight EXCEPT ![j] = {"up_input"}]
             /\ UNCHANGED response
    /\ UNCHANGED <<record, history, storage, extractedText, latexCode,
                   outputResult, docxResult, ocrOut, caught, returned, docTexts, fsVars,
                   cfgVars, extractorVars, callVars, gen>>

\* createWorksheet, lines 106-128: the input upload returns, the insert is issued
UploadInputDone(j) ==
    /\ pc[j] = "up_input"
    /\ \E ok \in BOOLEAN :
        IF ok
        THEN /\ storage' = [storage EXCEPT ![j] = @ \cup {"input"}]
             /\ pc' = [pc EXCEPT ![j] = "insert"]
             /\ inflight' = [inflight EXCEPT ![j] = {"insert"}]
             /\ UNCHANGED response
        ELSE /\ response' = [response EXCEPT ![j] = 500]
             /\ pc' = [pc EXCEPT ![j] = "rejected"]
             /\ inflight' = [inflight EXCEPT ![j] = {}]
             /\ UNCHANGED storage
    /\ UNCHANGED <<record, history, fileType, extractedText, latexCode,
                   outputResult, docxResult, ocrOut, caught, returned, docTexts, fsVars,
                   cfgVars, extractorVars, callVars, gen>>

\* createWorksheet, lines 113-153: the insert returns; on success
\* processWorksheet is started (it runs up to its first await, the status
\* write of line 213) and 201 is answered
InsertDone(j) ==
    /\ pc[j] = "insert"
    /\ \E ok \in BOOLEAN :
        IF ok
        THEN /\ record' = [record EXCEPT ![j] = NewRecord]
             /\ history' = Persisted(history, record')
             /\ pc' = [pc EXCEPT ![j] = "w_extracting"]
             /\ inflight' = [inflight EXCEPT ![j] = {"w_extracting"}]
             /\ response' = [response EXCEPT ![j] = 201]
        ELSE /\ response' = [response EXCEPT ![j] = 500]
             /\ pc' = [pc EXCEPT ![j] = "rejected"]
             /\ inflight' = [inflight EXCEPT ![j] = {}]
             /\ UNCHANGED <<record, history>>
    /\ UNCHANGED <<storage, fileType, extractedText, latexCode,
                   outputResult, docxResult, ocrOut, caught, returned, docTexts, fsVars,
                   cfgVars, extractorVars, callVars, gen>>

\* the constants of the try block of processWorksheet leave scope
ReleaseLocals(j) ==
    /\ extractedText' = [extractedText EXCEPT ![j] = <<>>]
    /\ latexCode' = [latexCode EXCEPT ![j] = <<>>]
    /\ outputResult' = [outputResult EXCEPT ![j] = NULL]
    /\ docxResult' = [docxResult EXCEPT ![j] = NULL]

\* the catch block answering the submitter with the error as well
CatchAnswering(j) ==
    /\ pc' = [pc EXCEPT ![j] = "w_failed"]
    /\ inflight' = [inflight EXCEPT ![j] = {"w_failed"}]
    /\ caught' = [caught EXCEPT ![j] = TRUE]
    /\ ReleaseLocals(j)
    /\ response' = [response EXCEPT ![j] = 500]

\* processWorksheet, lines 254-260: the catch block issues the FAILED write
Catch(j) ==
    /\ pc' = [pc EXCEPT ![j] = "w_failed"]
    /\ inflight' = [inflight EXCEPT ![j] = {"w_failed"}]
    /\ caught' = [caught EXCEPT ![j] = TRUE]
    /\ ReleaseLocals(j)
    /\ UNCHANGED response

\* the awaited call op returned and the call after it is issued: an
\* extraction starts with the converter of the file type, a generate call
\* issues its first model request in its own step
Proceed(j, op) ==
    LET next == NextOp(op)
        awaited == IF next = "extract" THEN FirstExtractOp(fileType[j]) ELSE next
    IN  /\ pc' = [pc EXCEPT ![j] = awaited]
        /\ inflight' = [inflight EXCEPT ![j] = IF next = "generate" THEN {} ELSE {awaited}]
        /\ UNCHANGED <<caught, response>>

\* the mkdtemp call of the operation awaited returns: the scratch directory
\* exists, the input file is written and the external tool is started
MkdtempDone(j) ==
    /\ pc[j] \in ScratchOps
    /\ pc[j] \notin scratch[j]
    /\ scratch' = [scratch EXCEPT ![j] = @ \cup {pc[j]}]
    /\ UNCHANGED <<pc, response, record, history, inflight, storage, fileType,
                   extractedText, latexCode, outputResult, docxResult, ocrOut,
                   caught, returned, docTexts, compileError, cfgVars,
                   extractorVars, callVars, gen>>

\* processWorksheet, line 213: updateStatus(id, EXTRACTING) returns
WriteExtractingDone(j) ==
    /\ pc[j] = "w_extracting"
    /\ \E ok \in BOOLEAN :
        IF ok
        THEN /\ record' = updateStatus(record, j, EXTRACTING, <<>>)
             /\ Proceed(j, "w_extracting")
             /\ UNCHANGED <<extractedText, latexCode, outputResult, docxResult>>
        ELSE /\ UNCHANGED record
             /\ Catch(j)
    /\ history' = Persisted(history, record')
    /\ UNCHANGED <<storage, fileType, ocrOut, returned, docTexts, fsVars, cfgVars,
                   extractorVars, callVars, gen>>

\* extractFromDocx, lines 17-29: the converter returns; extractText returns
\* or throws; line 220 issues the GENERATING write
PandocDone(j) ==
    /\ pc[j] = "pandoc"
    /\ "pandoc" \in scratch[j]
    /\ \E out \in PandocOutcomes :
        /\ \E r \in {extractText(fileType[j], out, ToolFailed, ToolFailed)} :
            IF r.ok
            THEN /\ extractedText' = [extractedText EXCEPT ![j] = r.text]
                 /\ returned' = [returned EXCEPT ![j] = @ \cup {"extractText"}]
                 /\ Proceed(j, "extract")
                 /\ UNCHANGED <<latexCode, outputResult, docxResult>>
            ELSE /\ UNCHANGED returned
                 /\ Catch(j)
        /\ scratch' = [scratch EXCEPT ![j] =
                          Cleanup(@, "pandoc", IF out.failed THEN "throw" ELSE "return")]
    /\ UNCHANGED <<record, history, storage, fileType, ocrOut, docTexts, compileError,
                   cfgVars, extractorVars, callVars, gen>>

\* extractFromPdf, lines 38-39: the OCR subprocess returns, pdf-parse is called
Pix2TexDone(j) ==
    /\ pc[j] = "pix2tex"
    /\ \E ocr \in OcrOutcomes :
        /\ "pix2tex" \in scratch[j] \/ ocr = ToolFailed
        /\ ocrOut' = [ocrOut EXCEPT ![j] = ocr]
        /\ scratch' = [scratch EXCEPT ![j] =
                          Cleanup(@, "pix2tex", IF ocr.failed THEN "throw" ELSE "return")]
    /\ pc' = [pc EXCEPT ![j] = "pdfparse"]
    /\ inflight' = [inflight EXCEPT ![j] = {"pdfparse"}]
    /\ UNCHANGED <<response, record, history, storage, fileType, extractedText,
                   latexCode, outputResult, docxResult, caught, returned, docTexts,
                   compileError,
                   cfgVars, extractorVars, callVars, gen>>

\* extractFromPdf, lines 39-48: pdf-parse returns; extractText returns or throws
PdfParseDone(j) ==
    /\ pc[j] = "pdfparse"
    /\ \E out \in PdfParseOutcomes :
        \E r \in {extractText(fileType[j], ToolFailed, ocrOut[j], out)} :
            IF r.ok
            THEN /\ extractedText' = [extractedText EXCEPT ![j] = r.text]
                 /\ returned' = [returned EXCEPT ![j] = @ \cup {"extractText"}]
                 /\ Proceed(j, "extract")
                 /\ UNCHANGED <<latexCode, outputResult, docxResult>>
            ELSE /\ UNCHANGED returned
                 /\ Catch(j)
    /\ ocrOut' = [ocrOut EXCEPT ![j] = ToolFailed]
    /\ UNCHANGED <<record, history, storage, fileType, docTexts, fsVars, cfgVars,
                   extractorVars, callVars, gen>>

\* processWorksheet, line 220: updateStatus(id, GENERATING) returns and
\* LatexGenerator.generate is called
WriteGeneratingDone(j) ==
    /\ pc[j] = "w_generating"
    /\ \E ok \in BOOLEAN :
        IF ok
        THEN /\ record' = updateStatus(record, j, GENERATING, <<>>)
             /\ Proceed(j, "w_generating")
             /\ UNCHANGED <<extractedText, latexCode, outputResult, docxResult>>
        ELSE /\ UNCHANGED record
             /\ Catch(j)
    /\ history' = Persisted(history, record')
    /\ UNCHANGED <<storage, fileType, ocrOut, returned, docTexts, fsVars, cfgVars,
                   extractorVars, callVars, gen>>

\* processWorksheet, line 227: updateStatus(id, COMPILING, {latex_content})
\* returns and PDFCompiler.compile is called
WriteCompilingDone(j) ==
    /\ pc[j] = "w_compiling"
    /\ \E ok \in BOOLEAN :
        IF ok
        THEN /\ record' = updateStatus(record, j, COMPILING,
                                       [latex_content |-> latexCode[j]])
             /\ Proceed(j, "w_compiling")
             /\ UNCHANGED <<extractedText, latexCode, outputResult, docxResult>>
        ELSE /\ UNCHANGED record
             /\ Catch(j)
    /\ history' = Persisted(history, record')
    /\ UNCHANGED <<storage, fileType, ocrOut, returned, docTexts, fsVars, cfgVars,
                   extractorVars, callVars, gen>>

\* processWorksheet, lines 230-234: PDFCompiler.compile returns or throws
PdfDone(j) ==
    /\ pc[j] = "pdf"
    /\ "pdf" \in scratch[j]
    /\ \E env \in CompilerOutcomes :
        \E r \in {renderPdf(env)} :
            /\ IF r.ok
               THEN /\ returned' = [returned EXCEPT ![j] = @ \cup {"compile"}]
                    /\ Proceed(j, "pdf")
                    /\ UNCHANGED <<extractedText, latexCode, outputResult,
                                   docxResult, compileError>>
               ELSE /\ compileError' = [compileError EXCEPT ![j] = r.error]
                    /\ UNCHANGED returned
                    /\ Catch(j)
            /\ scratch' = [scratch EXCEPT ![j] =
                              CleanupPdf(@, IF r.ok THEN "return" ELSE "throw")]
    /\ UNCHANGED <<record, history, storage, fileType, ocrOut,
                   docTexts, cfgVars, extractorVars, callVars, gen>>

\* processWorksheet, lines 234-239: uploadOutputPdf returns or throws
UploadPdfDone(j) ==
    /\ pc[j] = "up_pdf"
    /\ \E ok \in BOOLEAN :
        IF ok
        THEN /\ storage' = [storage EXCEPT ![j] = @ \cup {"pdf"}]
             /\ outputResult' = [outputResult EXCEPT ![j] = PdfPath]
             /\ Proceed(j, "up_pdf")
             /\ UNCHANGED <<extractedText, latexCode, docxResult>>
        ELSE /\ UNCHANGED storage
             /\ Catch(j)
    /\ UNCHANGED <<record, history, fileType, ocrOut, returned, docTexts, fsVars,
                   cfgVars, extractorVars, callVars, gen>>

\* processWorksheet, lines 239-242: DocxCompiler.compile returns or throws
DocxDone(j) ==
    /\ pc[j] = "docx"
    /\ "docx" \in scratch[j]
    /\ \E ok \in BOOLEAN :
        /\ IF ok
           THEN /\ Proceed(j, "docx")
                /\ UNCHANGED <<extractedText, latexCode, outputResult, docxResult>>
           ELSE Catch(j)
        /\ scratch' = [scratch EXCEPT ![j] =
                          Cleanup(@, "docx", IF ok THEN "return" ELSE "throw")]
    /\ UNCHANGED <<record, history, storage, fileType, ocrOut, returned,
                   docTexts, compileError, cfgVars, extractorVars, callVars, gen>>

\* processWorksheet, lines 242-250: uploadOutputDocx returns or throws
UploadDocxDone(j) ==
    /\ pc[j] = "up_docx"
    /\ \E ok \in BOOLEAN :
        IF ok
        THEN /\ storage' = [storage EXCEPT ![j] = @ \cup {"docx"}]
             /\ docxResult' = [docxResult EXCEPT ![j] = DocxPath]
             /\ Proceed(j, "up_docx")
             /\ UNCHANGED <<extractedText, latexCode, outputResult>>
        ELSE /\ UNCHANGED storage
             /\ Catch(j)
    /\ UNCHANGED <<record, history, fileType, ocrOut, returned, docTexts, fsVars,
                   cfgVars, extractorVars, callVars, gen>>

\* processWorksheet, lines 246-250: the additionalData of the READY write
ReadyData(j) ==
    [output_pdf_storage_path |-> outputResult[j],
     output_docx_storage_path |-> docxResult[j],
     updated_at |-> Now]

\* the FAILED write recording the artifacts uploaded so far
FailedDataWithArtifacts(j) ==
    [output_pdf_storage_path |-> IF "pdf" \in storage[j] THEN PdfPath ELSE NULL,
     output_docx_storage_path |-> IF "docx" \in storage[j] THEN DocxPath ELSE NULL,
     updated_at |-> Now]

\* processWorksheet, lines 258-260: the additionalData of the FAILED write
FailedData(j) == [updated_at |-> Now]

\* processWorksheet, lines 246-252: updateStatus(id, READY, {paths,
\* updated_at}) returns; on success processWorksheet is over
WriteReadyDone(j) ==
    /\ pc[j] = "w_ready"
    /\ \E ok \in BOOLEAN :
        IF ok
        THEN /\ record' = updateStatus(record, j, READY, ReadyData(j))
             /\ pc' = [pc EXCEPT ![j] = "completed"]
             /\ inflight' = [inflight EXCEPT ![j] = {}]
             /\ ReleaseLocals(j)
             /\ fileType' = [fileType EXCEPT ![j] = NULL]
             /\ UNCHANGED <<caught, response>>
        ELSE /\ UNCHANGED <<record, fileType>>
             /\ Catch(j)
    /\ history' = Persisted(history, record')
    /\ UNCHANGED <<storage, ocrOut, returned, docTexts, fsVars, cfgVars,
                   extractorVars, callVars, gen>>

\* processWorksheet, lines 258-261: updateStatus(id, FAILED, {updated_at})
\* returns and processWorksheet is over, its parameters gone; when it throws, the error leaves processWorksheet and is logged
\* by the catch callback of createWorksheet (lines 136-138)
WriteFailedDone(j) ==
    /\ pc[j] = "w_failed"
    /\ \E ok \in BOOLEAN :
        IF ok
        THEN /\ record' = updateStatus(record, j, FAILED, FailedData(j))
             /\ pc' = [pc EXCEPT ![j] = "completed"]
        ELSE /\ UNCHANGED record
             /\ pc' = [pc EXCEPT ![j] = "rejected_write"]
    /\ inflight' = [inflight EXCEPT ![j] = {}]
    /\ history' = Persisted(history, record')
    /\ fileType' = [fileType EXCEPT ![j] = NULL]
    /\ compileError' = [compileError EXCEPT ![j] = NoError]
    /\ UNCHANGED <<response, storage, extractedText, latexCode,
                   outputResult, docxResult, ocrOut, caught, returned, docTexts, scratch,
                   cfgVars, extractorVars, callVars, gen>>

\* manual texts LatexGenerator.generate may return
ManualTexts == {<<"T", "\n", "1", ".", " ", "x">>}

\* LatexGenerator.generate as one call: it returns a manual or throws
GenerateDone(j) ==
    /\ pc[j] = "generate"
    /\ \E r \in {Throw} \cup {Ok(t) : t \in ManualTexts} :
        IF r.ok
        THEN /\ GEMINI_API_KEY
             /\ chunkWorksheet(extractedText[j]) # <<>>
             /\ latexCode' = [latexCode EXCEPT ![j] = r.text]
             /\ returned' = [returned EXCEPT ![j] = @ \cup {"generate"}]
             /\ Proceed(j, "generate")
             /\ UNCHANGED <<extractedText, outputResult, docxResult>>
        ELSE /\ UNCHANGED returned
             /\ Catch(j)
    /\ UNCHANGED <<record, history, storage, fileType, ocrOut, docTexts, fsVars,
                   cfgVars, extractorVars, callVars, gen>>

\* ------------------------------------------------------------------------
\* LatexGenerator.generate, request by request
\* ------------------------------------------------------------------------
\* HTTP statuses of a failed model request: model not found, quota
\* exceeded, anything else (a timeout has no status)
ApiErrors == {404, 429, 500}

\* buildFallbackLatex keeps text.slice(0, 4000)
FallbackTextLimit == 4000

\* the header banner block of the prompt format, lines 144-147
HeaderBlock == <<"T", "\n", "W", "\n", "Y", "\n", "A">>

\* the answer the model writes for one question block: the block and a
\* key/solution line
AnswerFor(block) == block \o <<"\n", "x">>

\* a model output: the banner when withHeader, then the answers
ModelOutput(withHeader, blocks) ==
    LET answers == Join([i \in 1..Len(blocks) |-> AnswerFor(blocks[i])], <<"\n">>)
    IN  IF withHeader /\ blocks # <<>> THEN HeaderBlock \o <<"\n", "\n">> \o answers
        ELSE IF withHeader THEN HeaderBlock
        ELSE answers

\* the output wrapped in code fences
Fenced(text) == <<"F", "\n">> \o text \o <<"\n", "F">>

\* the texts the model may answer for a chunk: the banner or not (whatever
\* the prompt asked), the first k questions answered, fenced or not
ModelOutputs(chunkText) ==
    LET blocks == QuestionBlocks(Trim(chunkText))
        plain == IF blocks = <<>>
                 THEN {<<>>, <<"x">>, HeaderBlock \o <<"\n", "\n", "x">>}
                 ELSE {ModelOutput(h, SubSeq(blocks, 1, k)) :
                          h \in BOOLEAN, k \in 0..Len(blocks)}
    IN  plain \cup {Fenced(t) : t \in plain}

\* the activation of generateChunkWithRetries(model, chunkText, ...,
\* includeHeader, depth)
Frame(chunkText, includeHeader, depth) ==
    [chunkText |-> chunkText, includeHeader |-> includeHeader, depth |-> depth,
     subChunks |-> <<>>, results |-> <<>>]

\* what a step of generate ends with: the next model request is issued,
\* generate returns value, or generate throws. The requests made are kept
\* after generate is over, and after a return the chunks and the outputs
\* pushed by the attempt that was running.
Issued(g) == [kind |-> "call", gen |-> g, value |-> <<>>]
Returns(g, value) == [kind |-> "return",
                      gen |-> [GenIdle EXCEPT !.calls = g.calls, !.chunks = g.chunks,
                                              !.outputs = g.outputs],
                      value |-> value]
Throws(g) == [kind |-> "throw", gen |-> [GenIdle EXCEPT !.calls = g.calls],
              value |-> <<>>]

\* generateChunkWithRetries is entered and awaits generateWithModel, line 267
IssueCall(g, frame) ==
    Issued([g EXCEPT !.stack = Append(@, frame),
                     !.calls = Append(@, <<g.model, g.ci, frame.depth>>)])

\* lines 29-44 and 63-74: the chunk loop of a model starts
StartModel(g, text, model) ==
    LET chunks == chunkWorksheet(text)
        g1 == [g EXCEPT !.model = model, !.chunks = chunks, !.ci = 1,
                        !.outputs = <<>>, !.stack = <<>>]
    IN  IssueCall(g1, Frame(chunks[1], TRUE, 0))

\* lines 61-95: the next fallback model, or the errors after the loop (the
\* error that started the loop has status 404)
NextFallback(g, text, model) ==
    IF model <= Len(FALLBACK_MODELS) THEN StartModel(g, text, model) ELSE Throws(g)

buildFallbackLatex(text) ==
    LET safeText == SubSeq(text, 1, IF Len(text) < FallbackTextLimit
                                    THEN Len(text) ELSE FallbackTextLimit)
    IN  HeaderBlock \o <<"\n", "\n", "1", ".", " ">> \o safeText \o <<"\n", "x">>

\* the catch block returning the placeholder manual whatever GEMINI_FALLBACK is
HandleErrorPlaceholderAlways(g, text, status) ==
    IF g.model # 0 THEN NextFallback(g, text, g.model + 1)
    ELSE IF status = 404 /\ Len(FALLBACK_MODELS) > 0 THEN StartModel(g, text, 1)
    ELSE IF status = 429 THEN Returns(g, buildFallbackLatex(text))
    ELSE Throws(g)

\* the catch block trying the fallback models whatever the error is
HandleErrorAnyStatus(g, text, status) ==
    IF g.model # 0 THEN NextFallback(g, text, g.model + 1)
    ELSE IF Len(FALLBACK_MODELS) > 0 THEN StartModel(g, text, 1)
    ELSE IF status = 429 /\ GEMINI_FALLBACK THEN Returns(g, buildFallbackLatex(text))
    ELSE Throws(g)

\* lines 57-96: an error with HTTP status `status` (0: none) is thrown while
\* model g.model is tried
HandleError(g, text, status) ==
    IF g.model # 0 THEN NextFallback(g, text, g.model + 1)
    ELSE IF status = 404 /\ Len(FALLBACK_MODELS) > 0 THEN StartModel(g, text, 1)
    ELSE IF status = 429 /\ GEMINI_FALLBACK THEN Returns(g, buildFallbackLatex(text))
    ELSE Throws(g)

\* lines 51-56 and 79-82: all chunks of the model are done
MergeDone(g, text, outputs) ==
    LET merged == mergeChunkOutputs(outputs)
    IN  IF Trim(merged) # <<>> THEN Returns(g, merged)
        ELSE IF g.model = 0 THEN HandleError(g, text, 0)
        ELSE NextFallback(g, text, g.model + 1)

\* lines 45-49 and 75-77: generateChunkWithRetries returned chunkText for
\* chunk g.ci at depth 0
ChunkDone(g, text, chunkText) ==
    LET outputs == IF Trim(chunkText) # <<>>
                   THEN Append(g.outputs, cleanGeneratedText(chunkText))
                   ELSE g.outputs
        g1 == [g EXCEPT !.outputs = outputs, !.stack = <<>>]
    IN  IF Trim(chunkText) = <<>> /\ g.model = 0 THEN HandleError(g, text, 0)
        ELSE IF g.ci < Len(g.chunks)
             THEN IssueCall([g1 EXCEPT !.ci = g.ci + 1],
                            Frame(g.chunks[g.ci + 1], FALSE, 0))
        ELSE MergeDone(g1, text, outputs)

RECURSIVE ReturnValue(_, _, _)
\* the top activation of generateChunkWithRetries returns value: its caller
\* (lines 276-288) calls the next half or merges and returns in turn (the
\* state g and the value are worked out once, then used)
ReturnValue(g0, text, value0) ==
    CHOOSE outcome \in
        {LET rest == SubSeq(g.stack, 1, Len(g.stack) - 1)
         IN  IF rest = <<>> THEN ChunkDone(g, text, value)
             ELSE LET parent == rest[Len(rest)]
                      results == Append(parent.results, value)
                      rest1 == [rest EXCEPT ![Len(rest)].results = results]
                      g1 == [g EXCEPT !.stack = rest1]
                  IN  IF Len(results) < Len(parent.subChunks)
                      THEN IssueCall(g1, Frame(parent.subChunks[Len(results) + 1],
                                               FALSE, parent.depth + 1))
                      ELSE ReturnValue(g1, text, mergeChunkOutputs(results)) :
            g \in {g0}, value \in {value0}} : TRUE

\* line 273 with depth <= MAX_CHUNK_DEPTH
ShouldSplitAtCeiling(expected, actual, depth) ==
    expected > 0 /\ actual > 0 /\ actual < expected /\ depth <= MAX_CHUNK_DEPTH

\* line 273 without the depth test
ShouldSplitAtAnyDepth(expected, actual, depth) ==
    expected > 0 /\ actual > 0 /\ actual < expected

\* line 273: the chunk is split and regenerated
ShouldSplit(expected, actual, depth) ==
    expected > 0 /\ actual > 0 /\ actual < expected /\ depth < MAX_CHUNK_DEPTH

\* lines 268-291: generateWithModel returned output to the top activation
OutputReceived(g, text, output) ==
    LET top == g.stack[Len(g.stack)]
        cleaned == cleanGeneratedText(output)
        expected == countQuestions(top.chunkText)
        actual == countQuestions(cleaned)
        subChunks == splitChunkInHalf(top.chunkText)
        g1 == [g EXCEPT !.stack[Len(g.stack)].subChunks = subChunks]
    IN  IF ShouldSplit(expected, actual, top.depth)
        THEN IssueCall(g1, Frame(subChunks[1], top.includeHeader, top.depth + 1))
        ELSE ReturnValue(g, text, cleaned)

\* lines 23-32: generate is entered
GenerateEntered(g, text) ==
    IF ~GEMINI_API_KEY THEN HandleError(g, text, 0)
    ELSE IF chunkWorksheet(text) = <<>> THEN HandleError(g, text, 0)
    ELSE StartModel(g, text, 0)

\* the step of generate ends with outcome o: processWorksheet awaits the
\* model request, goes on after generate (line 227) or enters its catch block
GenStep(j, o) ==
    /\ gen' = o.gen
    /\ IF o.kind = "call"
       THEN /\ pc' = [pc EXCEPT ![j] = "api"]
            /\ inflight' = [inflight EXCEPT ![j] = {"api"}]
            /\ UNCHANGED <<extractedText, latexCode, outputResult, docxResult,
                         returned, caught, response>>
       ELSE IF o.kind = "return"
       THEN /\ latexCode' = [latexCode EXCEPT ![j] = o.value]
            /\ returned' = [returned EXCEPT ![j] = @ \cup {"generate"}]
            /\ Proceed(j, "generate")
            /\ UNCHANGED <<extractedText, outputResult, docxResult>>
       ELSE /\ UNCHANGED returned
            /\ Catch(j)
    /\ UNCHANGED <<record, history, storage, fileType, ocrOut, docTexts, fsVars,
                   cfgVars, extractorVars, callVars>>

\* generate runs up to its first model request
GenStart(j) ==
    /\ pc[j] = "generate"
    /\ \E o \in {GenerateEntered(GenIdle, extractedText[j])} : GenStep(j, o)

\* a model request fails
ApiFailed(j) ==
    /\ pc[j] = "api"
    /\ \E status \in ApiErrors :
          \E o \in {HandleError(gen, extractedText[j], status)} : GenStep(j, o)

\* a model request returns a text
ApiReturned(j) ==
    /\ pc[j] = "api"
    /\ \E output \in ModelOutputs(gen.stack[Len(gen.stack)].chunkText) :
          \E o \in {OutputReceived(gen, extractedText[j], output)} : GenStep(j, o)

\* the steps of one job, generation apart
PipelineStep(j) ==
    \/ Submit(j)
    \/ UploadInputDone(j)
    \/ InsertDone(j)
    \/ WriteExtractingDone(j)
    \/ MkdtempDone(j)
    \/ PandocDone(j)
    \/ Pix2TexDone(j)
    \/ PdfParseDone(j)
    \/ WriteGeneratingDone(j)
    \/ WriteCompilingDone(j)
    \/ PdfDone(j)
    \/ UploadPdfDone(j)
    \/ DocxDone(j)
    \/ UploadDocxDone(j)
    \/ WriteReadyDone(j)
    \/ WriteFailedDone(j)

NextJobs == \E j \in JobIds : PipelineStep(j) \/ GenerateDone(j)

\* concurrent jobs, each generate call taken as one step
SpecJobs == InitJobs /\ [][NextJobs]_vars

\* configurations of latexGenerator.js the detailed specification covers
ChunkSizes == {2, DefaultChunkSize}
ChunkDepths == {1, DefaultMaxChunkDepth}
FallbackLists == {<<>>, <<"fallback-model">>}

Init ==
    /\ InitJobState
    /\ docTexts = SourceTexts
    /\ CHUNK_SIZE \in ChunkSizes
    /\ MAX_CHUNK_DEPTH \in ChunkDepths
    /\ FALLBACK_MODELS \in FallbackLists
    /\ GEMINI_API_KEY \in BOOLEAN
    /\ GEMINI_FALLBACK \in BOOLEAN
    /\ LATEX_KEEP_TEMP = FALSE
    /\ callArgs = NoCall
    /\ callResult = Pending

Next == PipelineStep(1) \/ GenStart(1) \/ ApiFailed(1) \/ ApiReturned(1)

\* one job, its generate call followed request by request
Spec == Init /\ [][Next]_vars

\* ------------------------------------------------------------------------
\* Job status machine
\* ------------------------------------------------------------------------
\* the statuses of a job that completes, in order
StatusOrder == <<EXTRACTING, GENERATING, COMPILING, READY>>

\* s is an initial part of t
IsPrefix(s, t) == Len(s) <= Len(t) /\ SubSeq(t, 1, Len(s)) = s

\* a prefix of StatusOrder, or one that stops before READY followed by FAILED
LegalHistory(h) ==
    \/ IsPrefix(h, StatusOrder)
    \/ /\ Len(h) >= 2
       /\ h[Len(h)] = FAILED
       /\ Len(h) - 1 < Len(StatusOrder)
       /\ IsPrefix(SubSeq(h, 1, Len(h) - 1), StatusOrder)

\* C1: the distinct statuses persisted for a job are a prefix of extracting,
\* generating, compiling, ready, optionally followed by failed when the
\* prefix stops before ready; a job whose status is ready or failed has
\* no status write in flight, so no other status follows
C1_StatusOrder ==
    \A j \in JobIds :
        /\ LegalHistory(history[j])
        /\ record[j].exists =>
              /\ history[j] # <<>>
              /\ record[j].status = history[j][Len(history[j])]
        /\ (record[j].exists /\ record[j].status \in {READY, FAILED}) =>
              /\ pc[j] = "completed"
              /\ inflight[j] = {}

\* C1: a job failed out of compiling after extracting and generating
C1_Witness ==
    /\ history[1] = <<EXTRACTING, GENERATING, COMPILING, FAILED>>
    /\ pc[1] = "completed"

\* C2: once processWorksheet is over, whether it returned or the error of
\* its FAILED write left it, the status persisted for the job is ready or
\* failed: no job stays in extracting, generating or compiling
C2_EndsTerminal ==
    \A j \in JobIds :
        pc[j] \in {"completed", "rejected_write"} =>
            record[j].status \in {READY, FAILED}

\* C3: the PDF and DOCX locations are recorded if and only if the status is
\* ready (a ready job has both, any other job neither), and the write that
\* sets failed changes only the status and the timestamp
C3_ArtifactsIffReady ==
    /\ [](\A j \in JobIds :
            record[j].exists =>
               /\ record[j].status = READY =>
                     /\ record[j].output_pdf_storage_path # NULL
                     /\ record[j].output_docx_storage_path # NULL
               /\ record[j].status # READY =>
                     /\ record[j].output_pdf_storage_path = NULL
                     /\ record[j].output_docx_storage_path = NULL)
    /\ [][\A j \in JobIds :
            (record[j].status # FAILED /\ record'[j].status = FAILED) =>
                \A f \in DOMAIN record[j] \ {"status", "updated_at"} :
                    record'[j][f] = record[j][f]]_vars

\* C3: a job failed after its PDF had been uploaded, and records no artifact
C3_Witness ==
    /\ record[1].status = FAILED
    /\ "pdf" \in storage[1]
    /\ record[1].output_pdf_storage_path = NULL

\* the external operations of the compile stage
CompileOps == {"pdf", "up_pdf", "docx", "up_docx"}

\* C4: a job has at most one external operation in flight; a model request
\* is in flight only after extractText returned; the requests of one model
\* are issued in chunk order, and while one is in flight it is the request
\* of the chunk being generated; a compiler or an artifact upload is in
\* flight only after generate returned
C4_Sequential ==
    \A j \in JobIds :
        /\ Cardinality(inflight[j]) <= 1
        /\ "api" \in inflight[j] =>
              /\ "extractText" \in returned[j]
              /\ "generate" \notin returned[j]
              /\ gen.stack # <<>>
              /\ gen.calls[Len(gen.calls)] =
                    <<gen.model, gen.ci, gen.stack[Len(gen.stack)].depth>>
              /\ Len(gen.outputs) < gen.ci
        /\ \A a, b \in DOMAIN gen.calls :
              (a < b /\ gen.calls[a][1] = gen.calls[b][1]) =>
                  gen.calls[a][2] <= gen.calls[b][2]
        /\ inflight[j] \cap CompileOps # {} =>
              /\ "generate" \in returned[j]
              /\ gen.stack = <<>>

\* C4: the request of a second chunk is in flight after the first chunk was
\* split and regenerated
C4_Witness ==
    /\ inflight[1] = {"api"}
    /\ gen.ci = 2
    /\ \E a \in DOMAIN gen.calls : gen.calls[a][2] = 1 /\ gen.calls[a][3] > 0

\* C5: the submitter is answered 201 as soon as the record is stored, while
\* the pipeline is still running; an error caught by processWorksheet never
\* changes that response and, once its FAILED write is stored, shows as
\* status failed and never as ready
C5_AdmissionAnswered ==
    /\ [](\A j \in JobIds :
            /\ record[j].exists <=> response[j] = 201
            /\ caught[j] =>
                  /\ response[j] = 201
                  /\ record[j].status # READY
                  /\ pc[j] = "completed" => record[j].status = FAILED)
    /\ [][\A j \in JobIds : response[j] # 0 => response'[j] = response[j]]_vars

\* C5: the job failed in the background after 201 was answered
C5_Witness ==
    /\ response[1] = 201
    /\ caught[1]
    /\ record[1].status = FAILED

\* the state processWorksheet keeps for job j
JobState(j) ==
    <<pc[j], record[j], history[j], inflight[j], storage[j], fileType[j],
      extractedText[j], latexCode[j], outputResult[j], docxResult[j],
      ocrOut[j], caught[j], returned[j], response[j], scratch[j], compileError[j]>>

\* C6: a step of one job leaves the record, the status history, the
\* extraction result and every other local of each other job unchanged, and
\* no step writes state shared by the jobs of the process (the settings
\* and the cached equation engine of FileExtractor)
C6_JobsIndependent ==
    [][/\ \A i, j \in JobIds :
            (i # j /\ JobState(i)' # JobState(i)) => JobState(j)' = JobState(j)
       /\ UNCHANGED <<cfgVars, extractorVars, docTexts>>]_vars

\* C6: two jobs ran side by side to different ends
C6_Witness ==
    /\ record[1].status = READY
    /\ record[2].status = FAILED
    /\ record[1].latex_content # NoLatex

\* ------------------------------------------------------------------------
\* chunkWorksheet called on its own
\* ------------------------------------------------------------------------
\* largest number of pieces of an extracted text
MaxPieces == 4

\* largest CHUNK_SIZE setting
MaxChunkSize == 3

\* what extracted texts are made of: blanks, plain text, a marker at the
\* start of the text, digits that are no marker, two numbered questions
TextPieces ==
    {<<"\n">>, <<" ">>, <<"x">>, <<"1", ".", " ">>, <<"3", ".">>,
     <<"\n", "4", ".", " ", "x">>, <<"\n", "Q", "5", ")", " ", "y">>}

RECURSIVE Flatten(_)
\* the concatenation of a list of lists
Flatten(lists) ==
    IF lists = <<>> THEN <<>> ELSE Head(lists) \o Flatten(Tail(lists))

\* the extracted texts chunkWorksheet is called with
ChunkTexts ==
    {Flatten(ps) : ps \in UNION {[1..n -> TextPieces] : n \in 0..MaxPieces}}

InitChunk ==
    /\ InitJobState
    /\ docTexts = {}
    /\ CHUNK_SIZE \in 1..MaxChunkSize
    /\ MAX_CHUNK_DEPTH = DefaultMaxChunkDepth
    /\ FALLBACK_MODELS = <<>>
    /\ GEMINI_API_KEY = TRUE
    /\ GEMINI_FALLBACK = FALSE
    /\ LATEX_KEEP_TEMP = FALSE
    /\ callArgs \in {[fn |-> "chunkWorksheet", text |-> t] : t \in ChunkTexts}
    /\ callResult = Pending

\* chunkWorksheet(text) returns
ApplyChunkWorksheet ==
    /\ callArgs.fn = "chunkWorksheet"
    /\ ~callResult.done
    /\ callResult' = Returned(chunkWorksheet(callArgs.text))
    /\ UNCHANGED <<pipeVars, cfgVars, extractorVars, callArgs>>

\* chunkWorksheet applied to every text, under every CHUNK_SIZE
SpecChunk == InitChunk /\ [][ApplyChunkWorksheet]_vars

\* the question blocks of each chunk, in chunk order
BlocksOfChunks(chunks) ==
    Flatten([i \in 1..Len(chunks) |-> QuestionBlocks(chunks[i])])

\* C7: for any text and any CHUNK_SIZE >= 1, the question blocks of the
\* chunks chunkWorksheet returns, concatenated in chunk order, are exactly
\* the question blocks of the text, in order: none lost, duplicated or
\* reordered
C7_ChunksKeepBlocks ==
    callResult.done =>
        BlocksOfChunks(callResult.value) = QuestionBlocks(Trim(callArgs.text))

\* C7: a text of three different question blocks was cut into two chunks
C7_Witness ==
    /\ callResult.done
    /\ CHUNK_SIZE = 2
    /\ Len(callResult.value) = 2
    /\ Len(QuestionBlocks(Trim(callArgs.text))) = 3
    /\ QuestionBlocks(Trim(callArgs.text))[2] # QuestionBlocks(Trim(callArgs.text))[3]

\* ------------------------------------------------------------------------
\* generateChunkWithRetries
\* ------------------------------------------------------------------------
\* C8: every activation of generateChunkWithRetries has depth at most
\* MAX_CHUNK_DEPTH; an activation at depth MAX_CHUNK_DEPTH has not split
\* and, whatever the model answers, does not call itself again: its
\* cleaned output goes to its caller, which then issues a request no deeper
\* than this one
C8_DepthBounded ==
    /\ \A i \in DOMAIN gen.stack :
          /\ gen.stack[i].depth = i - 1
          /\ gen.stack[i].depth <= MAX_CHUNK_DEPTH
          /\ gen.stack[i].depth = MAX_CHUNK_DEPTH => gen.stack[i].subChunks = <<>>
    /\ \A a \in DOMAIN gen.calls : gen.calls[a][3] <= MAX_CHUNK_DEPTH
    /\ (pc[1] = "api" /\ gen.stack[Len(gen.stack)].depth = MAX_CHUNK_DEPTH) =>
          \A output \in ModelOutputs(gen.stack[Len(gen.stack)].chunkText) :
              LET r == OutputReceived(gen, extractedText[1], output)
                  n == Len(gen.stack)
              IN  r.kind = "call" =>
                     /\ Len(r.gen.stack) <= n
                     /\ (Len(r.gen.stack) = n /\ n >= 2) =>
                           LET results == r.gen.stack[n - 1].results
                           IN  results[Len(results)] = cleanGeneratedText(output)

\* C8: at the depth ceiling a half with two questions came back with one
\* answered and was accepted: the request of the other half is in flight
C8_Witness ==
    /\ pc[1] = "api"
    /\ Len(gen.stack) = 2
    /\ gen.stack[2].depth = MAX_CHUNK_DEPTH
    /\ Len(gen.stack[1].results) = 1
    /\ countQuestions(gen.stack[1].subChunks[1]) = 2
    /\ countQuestions(gen.stack[1].results[1]) = 1

\* ------------------------------------------------------------------------
\* mergeChunkOutputs called on its own
\* ------------------------------------------------------------------------
\* largest number of chunk outputs merged
MaxOutputs == 3

\* texts the model answers for a chunk: the banner and an answer, the
\* banner alone, an answer alone, parts of the banner, a banner line among
\* the answers, an indented title among them, a title followed by text
RawOutputs ==
    {HeaderBlock \o <<"\n", "\n", "1", ".", " ", "x">>,
     HeaderBlock,
     <<"1", ".", " ", "x">>,
     <<"T", "\n", "2", ".", " ", "x">>,
     <<"W", "x", "\n", "Y", "\n", "2", ".", " ", "x">>,
     <<"x", "\n", "A", "\n", "x">>,
     <<"x", "\n", " ", "T", " ", "\n", "x">>,
     <<"T", " ", "x">>}

\* the outputs as generate keeps them (lines 47 and 269)
ChunkOutputs == {cleanGeneratedText(t) : t \in RawOutputs}

InitMerge ==
    /\ InitJobState
    /\ docTexts = {}
    /\ CHUNK_SIZE = DefaultChunkSize
    /\ MAX_CHUNK_DEPTH = DefaultMaxChunkDepth
    /\ FALLBACK_MODELS = <<>>
    /\ GEMINI_API_KEY = TRUE
    /\ GEMINI_FALLBACK = FALSE
    /\ LATEX_KEEP_TEMP = FALSE
    /\ callArgs \in {[fn |-> "mergeChunkOutputs", outputs |-> o] :
                        o \in UNION {[1..n -> ChunkOutputs] : n \in 1..MaxOutputs}}
    /\ callResult = Pending

\* mergeChunkOutputs(outputs) returns
ApplyMergeChunkOutputs ==
    /\ callArgs.fn = "mergeChunkOutputs"
    /\ ~callResult.done
    /\ callResult' = Returned(mergeChunkOutputs(callArgs.outputs))
    /\ UNCHANGED <<pipeVars, cfgVars, extractorVars, callArgs>>

\* mergeChunkOutputs applied to every list of one to MaxOutputs outputs
SpecMerge == InitMerge /\ [][ApplyMergeChunkOutputs]_vars

\* the header banner lines of a text, in order
HeaderLinesOf(text) == SelectSeq(SplitLines(text), IsHeaderLine)

\* the number of banner lines of each kind in a text
TitleLines(text) == Len(SelectSeq(SplitLines(text), IsTitleLine))
WorksheetLines(text) == Len(SelectSeq(SplitLines(text), IsWorksheetLine))
SyllabusLines(text) == Len(SelectSeq(SplitLines(text), IsSyllabusLine))
AnswerKeyLines(text) == Len(SelectSeq(SplitLines(text), IsAnswerKeyLine))

\* C9: the merge of N >= 1 outputs begins with the first output, unmodified,
\* and its header banner lines are exactly those of the first output: every
\* banner line of a later output is gone. The merge has each banner line
\* once when the first output has it once
C9_HeaderFromFirstOnly ==
    callResult.done =>
        LET first == callArgs.outputs[1]
            merged == callResult.value
        IN  /\ IsPrefix(first, merged)
            /\ HeaderLinesOf(merged) = HeaderLinesOf(first)
            /\ TitleLines(merged) = TitleLines(first)
            /\ WorksheetLines(merged) = WorksheetLines(first)
            /\ SyllabusLines(merged) = SyllabusLines(first)
            /\ AnswerKeyLines(merged) = AnswerKeyLines(first)

\* C9: three outputs were merged, the first with the whole banner, the two
\* others with banner lines of their own and answers that were kept
C9_Witness ==
    /\ callResult.done
    /\ Len(callArgs.outputs) = 3
    /\ HeaderLinesOf(callArgs.outputs[1]) = <<<<"T">>, <<"W">>, <<"Y">>, <<"A">>>>
    /\ \A i \in 2..3 :
          /\ HeaderLinesOf(callArgs.outputs[i]) # <<>>
          /\ stripHeader(callArgs.outputs[i]) # <<>>
    /\ callArgs.outputs[2] # callArgs.outputs[3]
    /\ Len(callResult.value) > Len(callArgs.outputs[1])

\* C9 as stated: the merge of N >= 1 outputs holds exactly one title line,
\* one Worksheet: line, one Syllabus Topics Covered: line and one Answer Key
\* line
C9_ExactlyOneOfEach ==
    callResult.done =>
        /\ TitleLines(callResult.value) = 1
        /\ WorksheetLines(callResult.value) = 1
        /\ SyllabusLines(callResult.value) = 1
        /\ AnswerKeyLines(callResult.value) = 1

\* ------------------------------------------------------------------------
\* extractText called on its own
\* ------------------------------------------------------------------------
\* texts a converter may write for a document: nothing, blanks, plain text,
\* a watermark line only, a page number only, a banner line only, a
\* question, text above a watermark line
ConverterTexts ==
    {<<>>, <<" ">>, <<"\n">>, <<"x">>, <<"M">>, <<"1">>, <<"T">>,
     <<"1", ".", " ", "x">>, <<"x", "\n", "M">>}

\* what a converter answers
ConverterOutcomes == {ToolFailed} \cup {ToolOk(t) : t \in ConverterTexts}

InitExtract ==
    /\ InitJobState
    /\ docTexts = {}
    /\ CHUNK_SIZE = DefaultChunkSize
    /\ MAX_CHUNK_DEPTH = DefaultMaxChunkDepth
    /\ FALLBACK_MODELS = <<>>
    /\ GEMINI_API_KEY = TRUE
    /\ GEMINI_FALLBACK = FALSE
    /\ LATEX_KEEP_TEMP = FALSE
    /\ callArgs \in {[fn |-> "extractText", type |-> t, pandoc |-> p,
                      ocr |-> o, pdfParse |-> d] :
                        t \in {"docx", "pdf", "txt"}, p \in ConverterOutcomes,
                        o \in OcrOutcomes, d \in ConverterOutcomes}
    /\ callResult = Pending

\* extractText(buffer, fileType) returns or throws
ApplyExtractText ==
    /\ callArgs.fn = "extractText"
    /\ ~callResult.done
    /\ callResult' = Returned(extractText(callArgs.type, callArgs.pandoc,
                                          callArgs.ocr, callArgs.pdfParse))
    /\ UNCHANGED <<pipeVars, cfgVars, extractorVars, callArgs>>

\* extractText applied to every file type and every answer of the tools
SpecExtract == InitExtract /\ [][ApplyExtractText]_vars

\* some extraction path of the document produced text: the converter for a
\* DOCX; the baseline text extraction or the OCR sub-path for a PDF
SomePathNonEmpty(args) ==
    \/ /\ args.type = "docx"
       /\ ~args.pandoc.failed
       /\ Trim(args.pandoc.out) # <<>>
    \/ /\ args.type = "pdf"
       /\ \/ ~args.pdfParse.failed /\ Trim(args.pdfParse.out) # <<>>
          \/ ~args.ocr.failed /\ args.ocr.out # <<>>

\* C10: extractText fails exactly when every extraction path of the
\* document yields empty output: it does not fail while some path produced
\* text, and it never returns an empty text
C10_FailsIffAllPathsEmpty ==
    callResult.done =>
        /\ SomePathNonEmpty(callArgs) => callResult.value.ok
        /\ callResult.value.ok => callResult.value.text # <<>>

\* ------------------------------------------------------------------------
\* normalizeMathText called on its own
\* ------------------------------------------------------------------------
\* largest number of pieces of a text to normalize
MaxNormPieces == 3

\* what the texts to normalize are made of: plain text, line feeds, a blank
\* line, a watermark line, a mathematical bold digit, a digit, a space, a
\* superscript two, a caret followed by a space
NormPieces ==
    {<<"x">>, <<"\n">>, <<"\n", "\n">>, <<"M">>, <<"D">>, <<"1">>, <<" ">>,
     <<"S">>, <<"^", " ">>}

\* the texts normalizeMathText is called with
NormTexts ==
    {Flatten(ps) : ps \in UNION {[1..n -> NormPieces] : n \in 0..MaxNormPieces}}

InitNormalize ==
    /\ InitJobState
    /\ docTexts = {}
    /\ CHUNK_SIZE = DefaultChunkSize
    /\ MAX_CHUNK_DEPTH = DefaultMaxChunkDepth
    /\ FALLBACK_MODELS = <<>>
    /\ GEMINI_API_KEY = TRUE
    /\ GEMINI_FALLBACK = FALSE
    /\ LATEX_KEEP_TEMP = FALSE
    /\ callArgs \in {[fn |-> "normalizeMathText", text |-> t] : t \in NormTexts}
    /\ callResult = Pending

\* normalizeMathText(text) returns
ApplyNormalizeMathText ==
    /\ callArgs.fn = "normalizeMathText"
    /\ ~callResult.done
    /\ callResult' = Returned(normalizeMathText(callArgs.text))
    /\ UNCHANGED <<pipeVars, cfgVars, extractorVars, callArgs>>

\* normalizeMathText applied to every text
SpecNormalize == InitNormalize /\ [][ApplyNormalizeMathText]_vars

\* C11: normalizeMathText is idempotent: normalizing the text it returned
\* gives that text again, also when a removed watermark line left blank
\* lines side by side and when a folded mathematical digit left a line that
\* is a page number
C11_NormalizeIdempotent ==
    callResult.done =>
        normalizeMathText(callResult.value) = callResult.value

\* ------------------------------------------------------------------------
\* PDFCompiler: escaping of a rendered line
\* Characters of a line: the nine reserved characters & % $ # _ { } ~ ^,
\* the backslash, brackets and parentheses, and
\*   "a"  ALMOST EQUAL TO (a Unicode math symbol)
\*   "B"  the control word name textbackslash
\*   "L"  the control word name textasciitilde
\*   "C"  the control word name textasciicircum
\*   "P"  the control word name approx
\* ------------------------------------------------------------------------
RECURSIVE ReplaceAll(_, _, _)
\* String.prototype.replace(/c/g, r) for a one-character pattern c
ReplaceAll(s, c, r) ==
    IF s = <<>> THEN <<>>
    ELSE (IF Head(s) = c THEN r ELSE <<Head(s)>>) \o ReplaceAll(Tail(s), c, r)

replaceUnicodeTextSymbols(text) == ReplaceAll(text, "a", <<"~", "=">>)

replaceUnicodeMathSymbols(text) == ReplaceAll(text, "a", <<"\\", "P", " ">>)

\* escapeLatexText with the tilde replaced before the braces
escapeLatexTextTildeFirst(text) ==
    ReplaceAll(ReplaceAll(ReplaceAll(ReplaceAll(ReplaceAll(
    ReplaceAll(ReplaceAll(ReplaceAll(ReplaceAll(ReplaceAll(
        replaceUnicodeTextSymbols(text),
        "\\", <<"\\", "B", "{", "}">>),
        "~", <<"\\", "L", "{", "}">>),
        "&", <<"\\", "&">>),
        "%", <<"\\", "%">>),
        "$", <<"\\", "$">>),
        "#", <<"\\", "#">>),
        "_", <<"\\", "_">>),
        "{", <<"\\", "{">>),
        "}", <<"\\", "}">>),
        "^", <<"\\", "C", "{", "}">>)

\* the replaces of escapeLatexText, applied one after the other
escapeLatexText(text) ==
    ReplaceAll(ReplaceAll(ReplaceAll(ReplaceAll(ReplaceAll(
    ReplaceAll(ReplaceAll(ReplaceAll(ReplaceAll(ReplaceAll(
        replaceUnicodeTextSymbols(text),
        "\\", <<"\\", "B", "{", "}">>),
        "&", <<"\\", "&">>),
        "%", <<"\\", "%">>),
        "$", <<"\\", "$">>),
        "#", <<"\\", "#">>),
        "_", <<"\\", "_">>),
        "{", <<"\\", "{">>),
        "}", <<"\\", "}">>),
        "~", <<"\\", "L", "{", "}">>),
        "^", <<"\\", "C", "{", "}">>)

RECURSIVE FindPair(_, _, _, _)
\* the first position from p on where characters c1 c2 stand, or 0
FindPair(s, p, c1, c2) ==
    IF p + 1 > Len(s) THEN 0
    ELSE IF s[p] = c1 /\ s[p + 1] = c2 THEN p
    ELSE FindPair(s, p + 1, c1, c2)

RECURSIVE FindChar(_, _, _)
\* the first position from p on where character c stands, or 0
FindChar(s, p, c) ==
    IF p > Len(s) THEN 0
    ELSE IF s[p] = c THEN p
    ELSE FindChar(s, p + 1, c)

\* a two-character opening delimiter at p, closed by the first closing
\* delimiter after it: the position after the closing delimiter, or 0
DelimitedEnd(s, p, o1, o2, c1, c2) ==
    LET After(q) == IF q = 0 THEN 0 ELSE q + 2
    IN  IF p + 1 <= Len(s) /\ s[p] = o1 /\ s[p + 1] = o2
        THEN After(FindPair(s, p + 2, c1, c2)) ELSE 0

\* \$[^$]*?\$ matched at p: the position after the match, or 0
InlineDollarEnd(s, p) ==
    LET After(q) == IF q = 0 THEN 0 ELSE q + 1
    IN  IF p <= Len(s) /\ s[p] = "$" THEN After(FindChar(s, p + 1, "$")) ELSE 0

\* mathRegex matched at position p, its alternatives tried in order: the
\* position after the match, or 0
MathEnd(s, p) ==
    LET Or(e, other) == IF e # 0 THEN e ELSE other
    IN  Or(DelimitedEnd(s, p, "$", "$", "$", "$"),
        Or(InlineDollarEnd(s, p),
        Or(DelimitedEnd(s, p, "\\", "[", "\\", "]"),
           DelimitedEnd(s, p, "\\", "(", "\\", ")"))))

RECURSIVE SplitMath(_, _, _)
\* source.split(mathRegex): the text before the first match, the match,
\* the text between the first and the second match, the second match, ...
SplitMath(s, p, cur) ==
    LET At(end) == IF end # 0
                   THEN <<cur, SubSeq(s, p, end - 1)>> \o SplitMath(s, end, <<>>)
                   ELSE SplitMath(s, p + 1, Append(cur, s[p]))
    IN  IF p > Len(s) THEN <<cur>> ELSE At(MathEnd(s, p))

\* isMath.test(part): the whole part is one delimited span
isMath(part) ==
    LET n == Len(part)
        Wrapped(o1, o2, c1, c2) ==
            /\ n >= 4
            /\ part[1] = o1 /\ part[2] = o2
            /\ part[n - 1] = c1 /\ part[n] = c2
    IN  \/ Wrapped("$", "$", "$", "$")
        \/ /\ n >= 2
           /\ part[1] = "$" /\ part[n] = "$"
           /\ \A i \in 2..(n - 1) : part[i] # "$"
        \/ Wrapped("\\", "[", "\\", "]")
        \/ Wrapped("\\", "(", "\\", ")")

\* the callback of parts.map in escapeLatexTextPreservingMath
EscapePart(part) ==
    IF part = <<>> THEN <<>>
    ELSE IF isMath(part) THEN replaceUnicodeMathSymbols(part)
    ELSE escapeLatexText(part)

RECURSIVE EscapeParts(_)
EscapeParts(parts) ==
    IF parts = <<>> THEN <<>>
    ELSE EscapePart(Head(parts)) \o EscapeParts(Tail(parts))

escapeLatexTextPreservingMath(text) == EscapeParts(SplitMath(text, 1, <<>>))


\* ------------------------------------------------------------------------
\* escapeLatexTextPreservingMath called on its own
\* ------------------------------------------------------------------------
\* largest number of pieces of a rendered line
MaxLinePieces == 3

\* what the lines are made of: a letter, the nine reserved characters, a
\* backslash, a Unicode math symbol, the math delimiters (the bracket
\* delimiters behave as the parenthesis delimiters do) and an inline math
\* span
LinePieces ==
    {<<"x">>, <<"&">>, <<"%">>, <<"$">>, <<"#">>, <<"_">>, <<"{">>, <<"}">>,
     <<"~">>, <<"^">>, <<"\\">>, <<"a">>, <<"\\", "(">>, <<"\\", ")">>,
     <<"$", "_", "$">>}

\* the lines escapeLatexTextPreservingMath is called with
LineTexts ==
    {Flatten(ps) : ps \in UNION {[1..n -> LinePieces] : n \in 0..MaxLinePieces}}

InitEscape ==
    /\ InitJobState
    /\ docTexts = {}
    /\ CHUNK_SIZE = DefaultChunkSize
    /\ MAX_CHUNK_DEPTH = DefaultMaxChunkDepth
    /\ FALLBACK_MODELS = <<>>
    /\ GEMINI_API_KEY = TRUE
    /\ GEMINI_FALLBACK = FALSE
    /\ LATEX_KEEP_TEMP = FALSE
    /\ callArgs \in {[fn |-> "escapeLatexTextPreservingMath", text |-> t] :
                        t \in LineTexts}
    /\ callResult = Pending

\* escapeLatexTextPreservingMath(text) returns
ApplyEscapeLatexTextPreservingMath ==
    /\ callArgs.fn = "escapeLatexTextPreservingMath"
    /\ ~callResult.done
    /\ callResult' = Returned(escapeLatexTextPreservingMath(callArgs.text))
    /\ UNCHANGED <<pipeVars, cfgVars, extractorVars, callArgs>>

\* escapeLatexTextPreservingMath applied to every line
SpecEscape == InitEscape /\ [][ApplyEscapeLatexTextPreservingMath]_vars

\* the nine characters reserved by the markup
Reserved == {"&", "%", "$", "#", "_", "{", "}", "~", "^"}

\* the escaped form of a reserved character
EscapedForm(c) ==
    CASE c = "~" -> <<"\\", "L", "{", "}">>
      [] c = "^" -> <<"\\", "C", "{", "}">>
      [] OTHER -> <<"\\", c>>

\* what a character of a prose span is rendered as
ProseForm(c) == IF c \in Reserved THEN EscapedForm(c) ELSE escapeLatexText(<<c>>)

\* what a character of a math span is rendered as
MathForm(c) == IF c = "a" THEN <<"\\", "P", " ">> ELSE <<c>>

RECURSIVE OnlyEscapedForms(_, _)
\* from position p on, every reserved character of s belongs to an escaped
\* form: it follows a backslash, or it is the empty group that ends a
\* control word
OnlyEscapedForms(s, p) ==
    IF p > Len(s) THEN TRUE
    ELSE IF s[p] = "\\"
         THEN IF p + 1 > Len(s) THEN FALSE
              ELSE IF s[p + 1] \in {"L", "C"}
                   THEN /\ p + 3 <= Len(s)
                        /\ s[p + 2] = "{" /\ s[p + 3] = "}"
                        /\ OnlyEscapedForms(s, p + 4)
              ELSE IF s[p + 1] \in Reserved \cup {"B"}
                   THEN OnlyEscapedForms(s, p + 2)
              ELSE FALSE
    ELSE s[p] \notin Reserved /\ OnlyEscapedForms(s, p + 1)

\* the rendering of a span, character by character
RenderSpan(span, math) ==
    Flatten([k \in 1..Len(span) |->
                IF math THEN MathForm(span[k]) ELSE ProseForm(span[k])])

\* C12: the rendered line is its spans rendered in order: in a prose span
\* each of & % $ # _ { } ~ ^ is replaced by its escaped form, so that the
\* rendering of a prose span holds reserved characters in escaped forms
\* only; a span delimited as inline or display math keeps those characters
\* as they are
C12_EscapesProseKeepsMath ==
    callResult.done =>
        LET parts == SplitMath(callArgs.text, 1, <<>>)
        IN  /\ callResult.value =
                  Flatten([i \in 1..Len(parts) |-> RenderSpan(parts[i], i % 2 = 0)])
            /\ \A i \in 1..Len(parts) :
                  i % 2 = 1 => OnlyEscapedForms(RenderSpan(parts[i], FALSE), 1)

\* C12: a line with a percent sign in prose, an inline math span holding an
\* underscore, and a lone dollar sign after it
C12_Witness ==
    /\ callResult.done
    /\ callArgs.text = <<"%", "$", "_", "$", "$">>
    /\ callResult.value = <<"\\", "%", "$", "_", "$", "\\", "$">>

\* ------------------------------------------------------------------------
\* The compile stage on its own: one job, generate as one call, the
\* retention flag of the PDF compiler either way
\* ------------------------------------------------------------------------
InitCompile ==
    /\ InitJobState
    /\ docTexts = {<<>>, Worksheet(1)}
    /\ CHUNK_SIZE = DefaultChunkSize
    /\ MAX_CHUNK_DEPTH = DefaultMaxChunkDepth
    /\ FALLBACK_MODELS = <<>>
    /\ GEMINI_API_KEY = TRUE
    /\ GEMINI_FALLBACK = FALSE
    /\ LATEX_KEEP_TEMP \in BOOLEAN
    /\ callArgs = NoCall
    /\ callResult = Pending

NextCompile == PipelineStep(1) \/ GenerateDone(1)

\* the pipeline of one job with the compilers' outcomes and scratch directories
SpecCompile == InitCompile /\ [][NextCompile]_vars

\* the lines of the log from the 40th before its end on, without the blank
\* lines before the first and after the last line that has text
LastLogLines(log) ==
    LET n == Len(log.lines)
        kept == {i \in 1..n : i > n - LogTailLines /\ log.lines[i] # 0}
    IN  IF ~log.exists \/ kept = {} THEN <<>>
        ELSE SubSeq(log.lines,
                    CHOOSE a \in kept : \A i \in kept : a <= i,
                    CHOOSE b \in kept : \A i \in kept : i <= b)

\* the error caught by processWorksheet of job j left the compile stage
\* before PDFCompiler.compile returned a PDF
CompileStageFailed(j) ==
    /\ caught[j]
    /\ "generate" \in returned[j]
    /\ "compile" \notin returned[j]

FallbackModelLists ==
    {<<>>, <<"fallback-model-1">>, <<"fallback-model-1", "fallback-model-2">>}

InitFallback ==
    /\ InitJobState
    /\ docTexts = {<<"x">>, Worksheet(2)}
    /\ CHUNK_SIZE \in {1, 2}
    /\ MAX_CHUNK_DEPTH = 1
    /\ FALLBACK_MODELS \in FallbackModelLists
    /\ GEMINI_API_KEY = TRUE
    /\ GEMINI_FALLBACK \in BOOLEAN
    /\ LATEX_KEEP_TEMP = FALSE
    /\ callArgs = NoCall
    /\ callResult = Pending

\* the pipeline of one job, every model request of generate a step
SpecFallback == InitFallback /\ [][Next]_vars

\* the models of the requests generate has issued, in the order of issue
\* (0 the configured model, i the i-th fallback model)
CalledModels == [a \in DOMAIN gen.calls |-> gen.calls[a][1]]

\* C15: the requests of generate go to the configured model first and then
\* to the fallback models in their configured order, none skipped and none
\* started before the one before it failed; a failed request of the
\* configured model starts the first fallback model exactly when its status
\* is 404 and a fallback model is configured; a failed request of a fallback
\* model starts the next one, and generate throws when it was the last;
\* when generate returns, no request follows the one whose model succeeded
C15_FallbackModelsInOrder ==
    /\ [](/\ \A a \in DOMAIN CalledModels :
                /\ CalledModels[a] \in 0..Len(FALLBACK_MODELS)
                /\ a = 1 => CalledModels[a] = 0
                /\ a > 1 => CalledModels[a] - CalledModels[a - 1] \in {0, 1}
          /\ pc[1] = "api" =>
                /\ gen.model = CalledModels[Len(CalledModels)]
                /\ \A status \in ApiErrors :
                      LET o == HandleError(gen, extractedText[1], status)
                      IN  IF gen.model = 0
                          THEN IF status = 404 /\ FALLBACK_MODELS # <<>>
                               THEN /\ o.kind = "call"
                                    /\ o.gen.model = 1
                                    /\ o.gen.calls = Append(gen.calls, <<1, 1, 0>>)
                               ELSE /\ o.kind # "call"
                                    /\ o.gen.calls = gen.calls
                                    /\ (status # 429 \/ ~GEMINI_FALLBACK) => o.kind = "throw"
                          ELSE IF gen.model < Len(FALLBACK_MODELS)
                               THEN /\ o.kind = "call"
                                    /\ o.gen.model = gen.model + 1
                                    /\ o.gen.calls =
                                          Append(gen.calls, <<gen.model + 1, 1, 0>>)
                               ELSE /\ o.kind = "throw"
                                    /\ o.gen.calls = gen.calls)
    /\ [][/\ (pc[1] = "api" /\ pc'[1] = "api" /\ gen'.model # gen.model) =>
                /\ gen'.model = gen.model + 1
                /\ gen'.calls = Append(gen.calls, <<gen'.model, 1, 0>>)
          /\ (pc[1] = "api" /\ pc'[1] # "api") =>
                /\ gen'.calls = gen.calls
                /\ IF "generate" \in returned'[1]
                   THEN latexCode'[1] # <<>>
                   ELSE /\ caught'[1]
                        /\ gen.model \in {0, Len(FALLBACK_MODELS)}]_vars

\* C15: the configured model and the first fallback model failed, and
\* generate returned the manual of the second fallback model
C15_Witness ==
    /\ "generate" \in returned[1]
    /\ latexCode[1] # <<>>
    /\ \E a \in DOMAIN CalledModels : CalledModels[a] = 1
    /\ CalledModels[Len(CalledModels)] = 2

OcrGaveNothing(ocr) == ocr.failed \/ ocr.out = <<>>

\* C17: for a PDF whose OCR sub-path fails or gives no equations,
\* extractText returns the normalized text of pdf-parse and nothing else;
\* it throws only when pdf-parse itself throws
C17_OcrFailureSwallowed ==
    (callResult.done /\ callArgs.type = "pdf" /\ OcrGaveNothing(callArgs.ocr)) =>
        /\ callResult.value.ok <=> ~callArgs.pdfParse.failed
        /\ callResult.value.ok =>
              callResult.value.text = normalizeMathText(callArgs.pdfParse.out)

\* C17: the OCR sub-path failed and the text of pdf-parse was returned
C17_Witness ==
    /\ callResult.done
    /\ callArgs.type = "pdf"
    /\ callArgs.ocr = ToolFailed
    /\ callArgs.pdfParse = ToolOk(<<"x", "\n", "M">>)
    /\ callResult.value = Ok(<<"x">>)

\* ------------------------------------------------------------------------
\* FileExtractor: extractText on a DOCX with embedded equations
\* A document is what the converter prints for it and, for each m:oMath
\* element in document order, what convertOmmlToLatex returns for it ('' when
\* the conversion fails).
\* ------------------------------------------------------------------------
\* largest number of m:oMath elements of a document
MaxEquations == 2

\* what convertOmmlToLatex returns for an element
EquationLatex == {<<>>, <<"x">>, <<"X">>}

RECURSIVE EquationLines(_)
\* extractDocxEquations, lines 79-87: the "Equation: latex" lines of the
\* elements converted
EquationLines(conversions) ==
    IF conversions = <<>> THEN <<>>
    ELSE (IF Head(conversions) = <<>> THEN <<>>
          ELSE <<(<<"E", " ">> \o Head(conversions))>>)
         \o EquationLines(Tail(conversions))

\* extractDocxEquations, lines 71-94 (no caller in the repository)
extractDocxEquations(conversions) == Join(EquationLines(conversions), <<"\n">>)

InitDocx ==
    /\ InitJobState
    /\ docTexts = {}
    /\ CHUNK_SIZE = DefaultChunkSize
    /\ MAX_CHUNK_DEPTH = DefaultMaxChunkDepth
    /\ FALLBACK_MODELS = <<>>
    /\ GEMINI_API_KEY = TRUE
    /\ GEMINI_FALLBACK = FALSE
    /\ LATEX_KEEP_TEMP = FALSE
    /\ callArgs \in {[fn |-> "extractText", type |-> "docx", pandoc |-> p,
                      equations |-> e] :
                        p \in ConverterOutcomes,
                        e \in UNION {[1..n -> EquationLatex] : n \in 0..MaxEquations}}
    /\ callResult = Pending

\* extractText(buffer, 'docx') returns or throws: extractFromDocx reads the
\* converter's output only
ApplyExtractTextDocx ==
    /\ callArgs.fn = "extractText"
    /\ ~callResult.done
    /\ callResult' = Returned(extractText(callArgs.type, callArgs.pandoc,
                                          ToolFailed, ToolFailed))
    /\ UNCHANGED <<pipeVars, cfgVars, extractorVars, callArgs>>

\* extractText applied to DOCX documents with up to MaxEquations equations
SpecDocx == InitDocx /\ [][ApplyExtractTextDocx]_vars

\* text ends with the lines of tail
EndsWithLines(text, tail) ==
    \/ text = tail
    \/ /\ Len(text) > Len(tail)
       /\ SubSeq(text, Len(text) - Len(tail), Len(text)) = <<"\n">> \o tail

\* C18: the text extractText returns for a DOCX ends with one labeled
\* equation line for each equation element converted, in document order
C18_EquationsAppended ==
    (callResult.done /\ callResult.value.ok
        /\ EquationLines(callArgs.equations) # <<>>) =>
        EndsWithLines(callResult.value.text, extractDocxEquations(callArgs.equations))

\* ------------------------------------------------------------------------
\* Chunk planning in the pipeline: one job, worksheets of up to one question
\* more than the default CHUNK_SIZE, every CHUNK_SIZE up to the default
\* ------------------------------------------------------------------------
\* the number of questions of the largest worksheet
ScenarioQuestions == DefaultChunkSize + 1

InitPlan ==
    /\ InitJobState
    /\ docTexts = {<<"x">>} \cup {Worksheet(n) : n \in 0..ScenarioQuestions}
    /\ CHUNK_SIZE \in 1..DefaultChunkSize
    /\ MAX_CHUNK_DEPTH \in {1, DefaultMaxChunkDepth}
    /\ FALLBACK_MODELS = <<>>
    /\ GEMINI_API_KEY = TRUE
    /\ GEMINI_FALLBACK = FALSE
    /\ LATEX_KEEP_TEMP = FALSE
    /\ callArgs = NoCall
    /\ callResult = Pending

\* the pipeline of one job over worksheets of several chunks
SpecPlan == InitPlan /\ [][Next]_vars

\* the blocks of a text: its question blocks, or the whole text as one block
\* when it has no question marker
PlannedBlocks(text) ==
    IF Trim(text) = <<>> THEN <<>>
    ELSE IF countQuestions(Trim(text)) = 0 THEN <<Trim(text)>>
    ELSE QuestionBlocks(Trim(text))

\* the blocks of chunk i when n blocks are grouped k by k
BlocksOfChunk(blocks, i, k) ==
    SubSeq(blocks, (i - 1) * k + 1,
           IF i * k < Len(blocks) THEN i * k ELSE Len(blocks))

\* a response that has all the questions of the chunk it answers
Complete(chunkText, output) ==
    countQuestions(cleanGeneratedText(output)) >= countQuestions(chunkText)

\* C19: for an extracted text of n blocks and CHUNK_SIZE = k, the chunks
\* generate works on are ceil(n/k) non-empty texts, chunk i being blocks
\* (i-1)k+1 .. min(ik, n) (so k blocks each, the last one the rest); as long
\* as no chunk was regenerated the requests issued are one per chunk, in
\* chunk order, and a response that has all the questions of its chunk is
\* followed by the request of the next chunk or, after the last chunk, by
\* the end of generate: one request per chunk in all
C19_OneCallPerChunk ==
    /\ [](pc[1] = "api" =>
            /\ Len(gen.chunks) =
                  (Len(PlannedBlocks(extractedText[1])) + CHUNK_SIZE - 1) \div CHUNK_SIZE
            /\ \A i \in DOMAIN gen.chunks :
                  /\ gen.chunks[i] # <<>>
                  /\ gen.chunks[i] =
                        Join(BlocksOfChunk(PlannedBlocks(extractedText[1]), i, CHUNK_SIZE),
                             <<"\n", "\n">>)
            /\ (\A a \in DOMAIN gen.calls : gen.calls[a][3] = 0) =>
                  /\ gen.calls = [i \in 1..gen.ci |-> <<0, i, 0>>]
                  /\ \A output \in ModelOutputs(gen.stack[Len(gen.stack)].chunkText) :
                        Complete(gen.stack[Len(gen.stack)].chunkText, output) =>
                            LET o == OutputReceived(gen, extractedText[1], output)
                            IN  IF o.kind = "call"
                                THEN /\ gen.ci < Len(gen.chunks)
                                     /\ o.gen.calls =
                                           Append(gen.calls, <<0, gen.ci + 1, 0>>)
                                ELSE /\ o.gen.calls = gen.calls
                                     /\ o.kind = "return" => gen.ci = Len(gen.chunks))
    /\ [][(pc[1] = "api" /\ "generate" \in returned'[1]
              /\ \A a \in DOMAIN gen.calls : gen.calls[a][3] = 0) =>
             /\ gen'.calls = gen.calls
             /\ Len(gen.calls) = Len(gen.chunks)]_vars

\* C19: five questions under CHUNK_SIZE = 4: the chunks are questions 1 to 4
\* and question 5, and the second of two requests is in flight
C19_Witness ==
    /\ pc[1] = "api"
    /\ CHUNK_SIZE = 4
    /\ gen.chunks = <<Join([k \in 1..4 |-> QuestionLine(k)], <<"\n", "\n">>),
                      QuestionLine(5)>>
    /\ gen.calls = << <<0, 1, 0>>, <<0, 2, 0>> >>

\* the cleaned output for the chunk of frame top has some of its questions
\* but not all, below the depth ceiling
Shortfall(top, output) ==
    /\ countQuestions(top.chunkText) > 0
    /\ countQuestions(cleanGeneratedText(output)) > 0
    /\ countQuestions(cleanGeneratedText(output)) < countQuestions(top.chunkText)
    /\ top.depth < MAX_CHUNK_DEPTH

\* the text a split frame returns once its second half returned cleaned
MergedHalves(parent, cleaned) == mergeChunkOutputs(<<parent.results[1], cleaned>>)

\* the regeneration of a chunk, whatever its halves come back with: on a
\* shortfall below the depth ceiling the chunk is split into two halves at
\* the middle block (the first half the larger), the first half is requested
\* at depth + 1 with the header flag of the chunk; otherwise nothing is
\* requested at a greater depth; the frame above a split frame works on the
\* half that is due, the second one without the header flag; when the second
\* half returns, the split frame returns the merge of the two results
SplitRegenerateMerge ==
    pc[1] = "api" =>
        LET n == Len(gen.stack)
            top == gen.stack[n]
        IN  /\ \A output \in ModelOutputs(top.chunkText) :
                  LET o == OutputReceived(gen, extractedText[1], output)
                  IN  IF Shortfall(top, output)
                      THEN /\ o.kind = "call"
                           /\ Len(o.gen.stack) = n + 1
                           /\ Len(o.gen.stack[n].subChunks) = 2
                           /\ QuestionBlocks(o.gen.stack[n].subChunks[1])
                                 \o QuestionBlocks(o.gen.stack[n].subChunks[2])
                                 = QuestionBlocks(top.chunkText)
                           /\ Len(QuestionBlocks(o.gen.stack[n].subChunks[1]))
                                 = (Len(QuestionBlocks(top.chunkText)) + 1) \div 2
                           /\ o.gen.stack[n + 1] =
                                 Frame(o.gen.stack[n].subChunks[1],
                                       top.includeHeader, top.depth + 1)
                           /\ o.gen.calls =
                                 Append(gen.calls, <<gen.model, gen.ci, top.depth + 1>>)
                      ELSE /\ o.kind = "call" => Len(o.gen.stack) <= n
                           /\ (n = 2 /\ Len(gen.stack[1].results) = 1) =>
                                 o = ChunkDone(gen, extractedText[1],
                                               MergedHalves(gen.stack[1],
                                                            cleanGeneratedText(output)))
                           /\ (n = 3 /\ Len(gen.stack[2].results) = 1
                                     /\ Len(gen.stack[1].results) = 0) =>
                                 /\ o.kind = "call"
                                 /\ o.gen.stack[1].results =
                                       <<MergedHalves(gen.stack[2],
                                                      cleanGeneratedText(output))>>
            /\ \A i \in 1..(n - 1) :
                  /\ Len(gen.stack[i].subChunks) = 2
                  /\ Len(gen.stack[i].results) < 2
                  /\ gen.stack[i + 1].chunkText =
                        gen.stack[i].subChunks[Len(gen.stack[i].results) + 1]
                  /\ gen.stack[i + 1].includeHeader =
                        (gen.stack[i].includeHeader /\ gen.stack[i].results = <<>>)
                  /\ gen.stack[i + 1].depth = gen.stack[i].depth + 1

\* C20 as stated: the regeneration as above, and the merge of the two
\* halves' results has at least as many recognized questions as the chunk
C20_MergeHasExpectedQuestions ==
    /\ SplitRegenerateMerge
    /\ (pc[1] = "api" /\ Len(gen.stack) >= 2
           /\ Len(gen.stack[Len(gen.stack) - 1].results) = 1) =>
          \A output \in ModelOutputs(gen.stack[Len(gen.stack)].chunkText) :
              ~Shortfall(gen.stack[Len(gen.stack)], output) =>
                  countQuestions(MergedHalves(gen.stack[Len(gen.stack) - 1],
                                              cleanGeneratedText(output)))
                      >= countQuestions(gen.stack[Len(gen.stack) - 1].chunkText)

\* C20: the regeneration as above, and the merge of the two halves' results
\* has at least as many recognized questions as the chunk whenever each
\* half's result has all the questions of its half
C20_SplitRegeneratesHalves ==
    /\ SplitRegenerateMerge
    /\ (pc[1] = "api" /\ Len(gen.stack) >= 2
           /\ Len(gen.stack[Len(gen.stack) - 1].results) = 1) =>
          LET parent == gen.stack[Len(gen.stack) - 1]
          IN  \A output \in ModelOutputs(gen.stack[Len(gen.stack)].chunkText) :
                  (/\ ~Shortfall(gen.stack[Len(gen.stack)], output)
                   /\ countQuestions(parent.results[1])
                         >= countQuestions(parent.subChunks[1])
                   /\ countQuestions(cleanGeneratedText(output))
                         >= countQuestions(parent.subChunks[2])) =>
                      countQuestions(MergedHalves(parent, cleanGeneratedText(output)))
                          >= countQuestions(parent.chunkText)

\* C20: a chunk of four questions was split at depth 0, its first half came
\* back with its two questions, and the second half is requested at depth 1
\* without the header flag
C20_Witness ==
    /\ pc[1] = "api"
    /\ Len(gen.stack) = 2
    /\ countQuestions(gen.stack[1].chunkText) = 4
    /\ gen.stack[1].includeHeader
    /\ Len(gen.stack[1].results) = 1
    /\ countQuestions(gen.stack[1].results[1]) = 2
    /\ gen.stack[2] = Frame(gen.stack[1].subChunks[2], FALSE, 1)

\* ------------------------------------------------------------------------
\* generate when every model request returns: one job, a worksheet of four
\* questions in one chunk or two, no request fails, and a request in flight
\* is answered
\* ------------------------------------------------------------------------
InitReturning ==
    /\ InitJobState
    /\ docTexts = {Worksheet(DefaultChunkSize)}
    /\ CHUNK_SIZE \in {2, DefaultChunkSize}
    /\ MAX_CHUNK_DEPTH \in {1, DefaultMaxChunkDepth}
    /\ FALLBACK_MODELS = <<>>
    /\ GEMINI_API_KEY = TRUE
    /\ GEMINI_FALLBACK = FALSE
    /\ LATEX_KEEP_TEMP = FALSE
    /\ callArgs = NoCall
    /\ callResult = Pending

NextReturning == PipelineStep(1) \/ GenStart(1) \/ ApiReturned(1)

\* weak fairness of ApiReturned(1), which is enabled exactly while a model
\* request is in flight: a request in flight is answered
RequestsReturn == []<>(pc[1] # "api") \/ []<><<ApiReturned(1)>>_vars

\* the pipeline of one job whose model requests all return
SpecReturning == InitReturning /\ [][NextReturning]_vars /\ RequestsReturn

RECURSIVE Pow2(_)
Pow2(n) == IF n = 0 THEN 1 ELSE 2 * Pow2(n - 1)

\* the number of requests issued so far to model m for chunk ci
CallsFor(m, ci) ==
    Cardinality({a \in DOMAIN gen.calls :
                    gen.calls[a][1] = m /\ gen.calls[a][2] = ci})

\* the number of requests issued so far to model m
CallsOf(m) == Cardinality({a \in DOMAIN gen.calls : gen.calls[a][1] = m})

\* C21: when every model request returns, at most 2^(MAX_CHUNK_DEPTH+1) - 1
\* requests are issued for one chunk and at most c times as many to one
\* model for the c chunks of a job, and generate comes to an end: no request
\* stays in flight for ever
C21_CallsBounded ==
    /\ [](\A m \in 0..Len(FALLBACK_MODELS) :
            /\ \A ci \in 1..(DefaultChunkSize + 1) :
                  CallsFor(m, ci) <= Pow2(MAX_CHUNK_DEPTH + 1) - 1
            /\ pc[1] = "api" =>
                  CallsOf(m) <= Len(gen.chunks) * (Pow2(MAX_CHUNK_DEPTH + 1) - 1))
    /\ (pc[1] = "api") ~> (pc[1] # "api")

\* C21: a chunk of four questions took all seven requests of depth ceiling 2
C21_Witness ==
    /\ MAX_CHUNK_DEPTH = 2
    /\ CallsFor(0, 1) = 7
    /\ "generate" \in returned[1]

\* ------------------------------------------------------------------------
\* docxCompiler.js: sanitizeLatexForPandoc
\* The texts are made of dollar signs, blanks, line feeds, plain text,
\* underscores, closing braces and the symbol "a"; the replacements left out
\* (quotes, asterisks, the other symbols, HTML markers, list markers after a
\* brace) need characters these texts do not have.
\* ------------------------------------------------------------------------
\* /\$\$\s*\$([\s\S]*?)\$/ matched at p: the position of the closing dollar
\* sign, or 0
DisplayWrapperEnd(s, p) ==
    LET Body(q) == IF q <= Len(s) /\ s[q] = "$" THEN FindChar(s, q + 1, "$") ELSE 0
    IN  IF p + 1 <= Len(s) /\ s[p] = "$" /\ s[p + 1] = "$"
        THEN Body(SkipSpaces(s, p + 2)) ELSE 0

\* the position where the body of the wrapper matched at p begins
DisplayWrapperBody(s, p) == SkipSpaces(s, p + 2) + 1

RECURSIVE NormalizeDisplayMath(_, _)
\* line 24: replace(/\$\$\s*\$([\s\S]*?)\$/g, '$$ $1 $$'); in a replacement
\* string $$ stands for one dollar sign
NormalizeDisplayMath(s, p) ==
    LET At(end) ==
            IF end # 0
            THEN <<"$", " ">> \o SubSeq(s, DisplayWrapperBody(s, p), end - 1)
                 \o <<" ", "$">> \o NormalizeDisplayMath(s, end + 1)
            ELSE <<s[p]>> \o NormalizeDisplayMath(s, p + 1)
    IN  IF p > Len(s) THEN <<>> ELSE At(DisplayWrapperEnd(s, p))

RECURSIVE EscapeDoubleUnderscores(_)
\* line 32: replace(/__/g, '\\_\\_')
EscapeDoubleUnderscores(s) ==
    IF s = <<>> THEN <<>>
    ELSE IF Len(s) >= 2 /\ s[1] = "_" /\ s[2] = "_"
         THEN <<"\\", "_", "\\", "_">> \o EscapeDoubleUnderscores(SubSeq(s, 3, Len(s)))
    ELSE <<Head(s)>> \o EscapeDoubleUnderscores(Tail(s))

RECURSIVE EscapeUnderscores(_, _)
\* replace(/(?<!\\)_/g, '\\_'): docxCompiler.js lines 33 and 90
EscapeUnderscores(s, p) ==
    IF p > Len(s) THEN <<>>
    ELSE IF s[p] = "_" /\ (p = 1 \/ s[p - 1] # "\\")
         THEN <<"\\", "_">> \o EscapeUnderscores(s, p + 1)
    ELSE <<s[p]>> \o EscapeUnderscores(s, p + 1)

\* /^\s*}\s*/m matched at p: the position after the match, or 0
LeadingBraceEnd(s, p) ==
    LET Brace(q) == IF q <= Len(s) /\ s[q] = "}" THEN SkipSpaces(s, q + 1) ELSE 0
    IN  IF p = 1 \/ s[p - 1] = "\n" THEN Brace(SkipSpaces(s, p)) ELSE 0

RECURSIVE RemoveLeadingBraces(_, _)
\* line 65: replace(/^\s*}\s*/gm, '')
RemoveLeadingBraces(s, p) ==
    LET At(end) == IF end # 0 THEN RemoveLeadingBraces(s, end)
                   ELSE <<s[p]>> \o RemoveLeadingBraces(s, p + 1)
    IN  IF p > Len(s) THEN <<>> ELSE At(LeadingBraceEnd(s, p))

sanitizeLatexForPandoc(latexContent) ==
    RemoveLeadingBraces(
        ReplaceAll(
            EscapeUnderscores(
                EscapeDoubleUnderscores(NormalizeDisplayMath(latexContent, 1)), 1),
            "a", <<"\\", "P", " ">>),
        1)

\* largest number of pieces of a text given to the sanitizers
MaxSanPieces == 5

SanPieces ==
    {<<"$", "$">>, <<"$">>, <<" ">>, <<"x">>, <<"_">>, <<"}">>, <<"\n">>, <<"a">>}

\* the manual texts the sanitizers are called with
SanTexts == {Flatten(ps) : ps \in UNION {[1..n -> SanPieces] : n \in 0..MaxSanPieces}}

InitSanitizeLatex ==
    /\ InitJobState
    /\ docTexts = {}
    /\ CHUNK_SIZE = DefaultChunkSize
    /\ MAX_CHUNK_DEPTH = DefaultMaxChunkDepth
    /\ FALLBACK_MODELS = <<>>
    /\ GEMINI_API_KEY = TRUE
    /\ GEMINI_FALLBACK = FALSE
    /\ LATEX_KEEP_TEMP = FALSE
    /\ callArgs \in {[fn |-> "sanitizeLatexForPandoc", text |-> t] : t \in SanTexts}
    /\ callResult = Pending

\* sanitizeLatexForPandoc(latexContent) returns
ApplySanitizeLatexForPandoc ==
    /\ callArgs.fn = "sanitizeLatexForPandoc"
    /\ ~callResult.done
    /\ callResult' = Returned(sanitizeLatexForPandoc(callArgs.text))
    /\ UNCHANGED <<pipeVars, cfgVars, extractorVars, callArgs>>

\* sanitizeLatexForPandoc applied to every text
SpecSanitizeLatex == InitSanitizeLatex /\ [][ApplySanitizeLatexForPandoc]_vars

\* text is $$, optional blanks, then a body of plain text between two $,
\* and nothing else but perhaps one more $
IsDoubledWrapper(text) ==
    LET q == SkipSpaces(text, 3)
        r == FindChar(text, q + 1, "$")
    IN  /\ Len(text) >= 5
        /\ text[1] = "$" /\ text[2] = "$"
        /\ q <= Len(text) /\ text[q] = "$"
        /\ r > q + 1
        /\ r \in {Len(text) - 1, Len(text)}
        /\ text[Len(text)] = "$"
        /\ \A i \in (q + 1)..(r - 1) : text[i] = "x"

\* the body of a doubled wrapper
WrapperBody(text) ==
    SubSeq(text, SkipSpaces(text, 3) + 1,
           FindChar(text, SkipSpaces(text, 3) + 1, "$") - 1)

\* C22: a doubled display-math wrapper, $$ then optional blanks then a body
\* between dollar signs (as in "$$ $x$$"), comes out of
\* sanitizeLatexForPandoc as the body between $$ and $$: "$$ x $$"
C22_DoubledWrapperRewritten ==
    (callResult.done /\ IsDoubledWrapper(callArgs.text)) =>
        callResult.value =
            <<"$", "$", " ">> \o WrapperBody(callArgs.text) \o <<" ", "$", "$">>


\* ------------------------------------------------------------------------
\* C23: a job started while the model API key that generate reads is missing
\* is rejected at admission: it gets no job record and no pipeline stage runs
\* for it, so that no admitted job is caught later because the key is missing.
\* ------------------------------------------------------------------------
C23_MissingKeyRejectedAtAdmission ==
    ~GEMINI_API_KEY =>
        \A j \in JobIds : /\ pc[j] \in {"idle", "rejected"}
                          /\ ~record[j].exists
                          /\ ~caught[j]


\* ------------------------------------------------------------------------
\* FileExtractor: convertOmmlToLatex, called once per equation in one process
\* An equation is what the two transforms would do with it: the in-process
\* engine returns MathML, returns nothing or throws; the subprocess prints
\* MathML, prints nothing or fails.
\* ------------------------------------------------------------------------
\* largest number of convertOmmlToLatex calls followed in one process
MaxOmmlCalls == 3

\* xslt.xsltProcess on an equation
NodeOutcomes == {"mathml", "empty", "throw"}

\* the omml2mathml.py subprocess on an equation
PythonOutcomes == {"mathml", "empty", "fail"}

Equations == [node : NodeOutcomes, python : PythonOutcomes]

\* loadOmmlXslt, lines 199-206: '' once the failed flag is set, else the
\* stylesheet text, read on the first call and cached
loadOmmlXslt(failed) == [xsl |-> ~failed, loaded |-> ~failed]

\* transformOmmlWithPython, lines 251-288: the subprocess output trimmed,
\* '' when it fails
transformOmmlWithPython(eq) == eq.python = "mathml"

\* transformOmmlToMathml whose catch block leaves _ommlXsltFailed unset
transformOmmlToMathmlFlagUnset(failed, eq) ==
    IF ~failed /\ eq.node # "throw"
    THEN [failed |-> failed, node |-> TRUE, python |-> 0, mathml |-> eq.node = "mathml"]
    ELSE [failed |-> failed, node |-> ~failed, python |-> 1,
          mathml |-> transformOmmlWithPython(eq)]

\* transformOmmlToMathml, lines 225-245: the in-process engine unless the
\* failed flag is set; when it throws the flag is set and the subprocess runs
transformOmmlToMathml(failed, eq) ==
    IF ~failed /\ eq.node # "throw"
    THEN [failed |-> failed, node |-> TRUE, python |-> 0, mathml |-> eq.node = "mathml"]
    ELSE [failed |-> TRUE, node |-> ~failed, python |-> 1,
          mathml |-> transformOmmlWithPython(eq)]

\* convertOmmlToLatex, lines 144-164: '' when loadOmmlXslt returns '' or the
\* transform returns nothing, else the LaTeX of the MathML. The result
\* carries the engines invoked for the equation.
convertOmmlToLatex(failed, eq) ==
    LET Converted(t) == [failed |-> t.failed, node |-> t.node, python |-> t.python,
                         latex |-> IF t.mathml THEN <<"x">> ELSE <<>>]
    IN  IF ~loadOmmlXslt(failed).xsl
        THEN [failed |-> failed, node |-> FALSE, python |-> 0, latex |-> <<>>]
        ELSE Converted(transformOmmlToMathml(failed, eq))

InitOmml ==
    /\ InitJobState
    /\ docTexts = {}
    /\ CHUNK_SIZE = DefaultChunkSize
    /\ MAX_CHUNK_DEPTH = DefaultMaxChunkDepth
    /\ FALLBACK_MODELS = <<>>
    /\ GEMINI_API_KEY = TRUE
    /\ GEMINI_FALLBACK = FALSE
    /\ LATEX_KEEP_TEMP = FALSE
    /\ callArgs \in {[fn |-> "convertOmmlToLatex", equations |-> e] :
                        e \in UNION {[1..n -> Equations] : n \in 1..MaxOmmlCalls}}
    /\ callResult = Pending

\* the next equation of the process is converted
ApplyConvertOmmlToLatex ==
    /\ callArgs.fn = "convertOmmlToLatex"
    /\ Len(callResult.value) < Len(callArgs.equations)
    /\ \E r \in {convertOmmlToLatex(ommlXsltFailed,
                                    callArgs.equations[Len(callResult.value) + 1])} :
          /\ ommlXsltFailed' = r.failed
          /\ ommlXsltText' = (ommlXsltText \/ loadOmmlXslt(ommlXsltFailed).loaded)
          /\ callResult' = [done |-> Len(callResult.value) + 1 = Len(callArgs.equations),
                            value |-> Append(callResult.value,
                                             [node |-> r.node, python |-> r.python,
                                              latex |-> r.latex])]
    /\ UNCHANGED <<pipeVars, cfgVars, callArgs>>

\* the equations of one process converted in order
SpecOmml == InitOmml /\ [][ApplyConvertOmmlToLatex]_vars

\* the in-process engine was invoked for equation i and threw
NodeThrew(i) == callResult.value[i].node /\ callArgs.equations[i].node = "throw"

\* C24: once the in-process engine has thrown for an equation the failed
\* flag is set and the engine is invoked for no later equation of the process
C24_EngineNeverRetried ==
    callArgs.fn = "convertOmmlToLatex" =>
        \A i \in 1..Len(callResult.value) :
            NodeThrew(i) =>
                /\ ommlXsltFailed
                /\ \A k \in (i + 1)..Len(callResult.value) : ~callResult.value[k].node

\* an equation the engine would transform is converted after the engine threw
C24_Witness ==
    /\ callArgs.fn = "convertOmmlToLatex"
    /\ Len(callResult.value) = MaxOmmlCalls
    /\ NodeThrew(1)
    /\ callArgs.equations[2].node = "mathml"
    /\ ~callResult.value[2].node


\* C25: an equation whose in-process transform threw, or was skipped because
\* the failed flag was set, gets exactly one subprocess transform, and it is
\* dropped only if the subprocess fails or prints nothing
C25_SubprocessTriedOnce ==
    callArgs.fn = "convertOmmlToLatex" =>
        \A i \in 1..Len(callResult.value) :
            (NodeThrew(i) \/ ~callResult.value[i].node) =>
                /\ callResult.value[i].python = 1
                /\ callResult.value[i].latex = <<>> =>
                       callArgs.equations[i].python # "mathml"


\* ------------------------------------------------------------------------
\* docxCompiler.js: sanitizeMarkdownForPandoc
\* The texts hold dollar signs, underscores, escaped underscores and the
\* \( \) delimiters. They hold no {=html} marker, no comment and no image
\* line, so the three replacements of lines 76-79 leave them as they are.
\* mathRegex of line 83 is the expression of escapeLatexTextPreserveMath:
\* MathEnd matches it and SplitMath splits by it. lastIndex is kept as the
\* 1-based position the next search of the g-flagged mathRegex starts at.
\* ------------------------------------------------------------------------
\* largest number of pieces of a markdown text
MaxMdPieces == 6

MdPieces == {<<"$">>, <<"_">>, <<"\\", "_">>, <<"\\", "(">>, <<"\\", ")">>}

MdTexts == {Flatten(ps) : ps \in UNION {[1..n -> MdPieces] : n \in 0..MaxMdPieces}}

\* mathRegex.test(part) with the search starting at position from: the
\* position after the first match found, or 0 when there is none
MathTest(part, from) ==
    LET First(starts) == IF starts = {} THEN 0
                         ELSE MathEnd(part, CHOOSE p \in starts : \A r \in starts : p <= r)
    IN  First({p \in from..Len(part) : MathEnd(part, p) # 0})

RECURSIVE MapParts(_, _)
\* the callback of parts.map, lines 86-90, over the parts in order: an empty
\* part is returned before the test; a successful test leaves lastIndex after
\* its match, a failed one resets it
MapParts(parts, from) ==
    IF parts = <<>> THEN <<>>
    ELSE IF Head(parts) = <<>> THEN MapParts(Tail(parts), from)
    ELSE IF MathTest(Head(parts), from) # 0
         THEN Head(parts) \o MapParts(Tail(parts), MathTest(Head(parts), from))
    ELSE EscapeUnderscores(Head(parts), 1) \o MapParts(Tail(parts), 1)

\* sanitizeMarkdownForPandoc, lines 72-94
sanitizeMarkdownForPandoc(text) == MapParts(SplitMath(text, 1, <<>>), 1)

InitSanitizeMarkdown ==
    /\ InitJobState
    /\ docTexts = {}
    /\ CHUNK_SIZE = DefaultChunkSize
    /\ MAX_CHUNK_DEPTH = DefaultMaxChunkDepth
    /\ FALLBACK_MODELS = <<>>
    /\ GEMINI_API_KEY = TRUE
    /\ GEMINI_FALLBACK = FALSE
    /\ LATEX_KEEP_TEMP = FALSE
    /\ callArgs \in {[fn |-> "sanitizeMarkdownForPandoc", text |-> t] : t \in MdTexts}
    /\ callResult = Pending

\* sanitizeMarkdownForPandoc(markdownContent) returns
ApplySanitizeMarkdownForPandoc ==
    /\ callArgs.fn = "sanitizeMarkdownForPandoc"
    /\ ~callResult.done
    /\ callResult' = Returned(sanitizeMarkdownForPandoc(callArgs.text))
    /\ UNCHANGED <<pipeVars, cfgVars, extractorVars, callArgs>>

\* sanitizeMarkdownForPandoc applied to every text
SpecSanitizeMarkdown == InitSanitizeMarkdown /\ [][ApplySanitizeMarkdownForPandoc]_vars

RECURSIVE ProseEscaped(_, _)
\* the parts of a split joined, the math spans (the parts at even places) as
\* they are and the stretches between them with their underscores escaped
ProseEscaped(parts, i) ==
    IF i > Len(parts) THEN <<>>
    ELSE (IF i % 2 = 0 THEN parts[i] ELSE EscapeUnderscores(parts[i], 1))
         \o ProseEscaped(parts, i + 1)

\* C26: sanitizeMarkdownForPandoc returns its text with every math span as it
\* was and every unescaped underscore outside the math spans escaped, also
\* when two math spans directly follow one another
C26_ProseEscapedMathKept ==
    (callArgs.fn = "sanitizeMarkdownForPandoc" /\ callResult.done) =>
        callResult.value = ProseEscaped(SplitMath(callArgs.text, 1, <<>>), 1)


\* ------------------------------------------------------------------------
\* PDFCompiler.convertTextToLatex
\* "b" stands for the bullet character U+2022.  The commands the function
\* writes are single elements of its output: BeginList, EndList, ItemCmd and
\* the \textbf and center wrappers.
\* ------------------------------------------------------------------------
\* largest number of lines of a manual text
MaxTextLines == 3

BeginList == "\\begin{itemize}[leftmargin=1.2em]"
EndList == "\\end{itemize}"
ItemCmd == "\\item"

\* the lines the manual texts are made of
TextLines ==
    {<<"b", " ", "x">>, <<"b">>, <<"b", "-", "x">>, <<"-", " ", "x">>, <<" ", "-", " ", "x", "\r">>,
     <<"-">>, <<"-", "x">>, <<"x">>, <<>>, <<" ">>, <<"1", ".", " ", "x">>, <<"Q", "1", ".">>,
     <<"T">>, <<"W", " ", "x">>, <<"Y", "x">>, <<"A">>}

\* the contents convertTextToLatex is called with
TextContents ==
    {Join(ls, <<"\n">>) : ls \in UNION {[1..n -> TextLines] : n \in 0..MaxTextLines}}

\* if (inList) output.push('\\end{itemize}') with the list left open
CloseListNever(inList) == <<>>

\* lines 149-152 and 226-228: if (inList) output.push('\\end{itemize}')
CloseList(inList) == IF inList THEN <<<<EndList>>>> ELSE <<>>

\* lines 197-200: if (!inList) output.push('\\begin{itemize}[leftmargin=1.2em]')
OpenList(inList) == IF inList THEN <<>> ELSE <<<<BeginList>>>>

\* /^(Q\d+\.|Question\s*\d+[:.]|\d+\.)/i.test(trimmed), the spelled-out word
\* apart
IsQuestionLine(t) ==
    LET DigitsDot(p, q) == q > p /\ q <= Len(t) /\ t[q] = "."
    IN  \/ t[1] = "Q" /\ DigitsDot(2, SkipDigits(t, 2))
        \/ DigitsDot(1, SkipDigits(t, 1))

\* /^•\s*-?\s*/.test(trimmed)
IsDotBullet(t) == t[1] = "b"

\* trimmed.startsWith('- ')
IsDashBullet(t) == Len(t) >= 2 /\ t[1] = "-" /\ t[2] = " "

\* trimmed.replace(/^•\s*-?\s*/, '')
DotBulletItem(t) ==
    LET AfterDash(p) == SkipSpaces(t, IF p <= Len(t) /\ t[p] = "-" THEN p + 1 ELSE p)
    IN  SubSeq(t, AfterDash(SkipSpaces(t, 2)), Len(t))

\* trimmed.replace(/^-\\s*/, ''): a hyphen, a backslash and letters s, which
\* no line that starts with '- ' begins with
DashBulletItem(t) == t

\* the body of the loop, lines 145-224, for a line that is not blank: the
\* elements pushed and whether a list is open afterwards
ConvertLine(t, inList) ==
    IF t = <<"T">>
    THEN [out |-> CloseList(inList)
                    \o << <<"\\begin{center}\\Large\\textbf{">> \o escapeLatexText(t)
                           \o <<"}\\end{center}">> >>,
          inList |-> FALSE]
    ELSE IF t[1] \in {"W", "Y"}
    THEN [out |-> CloseList(inList)
                    \o << <<"\\textbf{", t[1], "}", " ">>
                           \o escapeLatexTextPreservingMath(
                                  SubSeq(t, SkipSpaces(t, 2), Len(t))) >>,
          inList |-> FALSE]
    ELSE IF t = <<"A">>
    THEN [out |-> CloseList(inList)
                    \o << <<"\\vspace{0.5em}\\textbf{">> \o escapeLatexText(t) \o <<"}">> >>,
          inList |-> FALSE]
    ELSE IF IsQuestionLine(t)
    THEN [out |-> CloseList(inList)
                    \o << <<"\\textbf{">> \o escapeLatexTextPreservingMath(t) \o <<"}">> >>,
          inList |-> FALSE]
    ELSE IF IsDotBullet(t)
    THEN [out |-> OpenList(inList)
                    \o << <<ItemCmd, " ">> \o escapeLatexTextPreservingMath(DotBulletItem(t)) >>,
          inList |-> TRUE]
    ELSE IF IsDashBullet(t)
    THEN [out |-> OpenList(inList)
                    \o << <<ItemCmd, " ">> \o escapeLatexTextPreservingMath(DashBulletItem(t)) >>,
          inList |-> TRUE]
    ELSE [out |-> CloseList(inList) \o <<escapeLatexTextPreservingMath(t)>>,
          inList |-> FALSE]

RECURSIVE ConvertLines(_, _)
\* the loop of lines 144-225 and the closing test of lines 226-228
ConvertLines(lines, inList) ==
    LET Then(r) == r.out \o ConvertLines(Tail(lines), r.inList)
    IN  IF lines = <<>> THEN CloseList(inList)
        ELSE IF Trim(Head(lines)) = <<>>
        THEN Then([out |-> CloseList(inList) \o <<<<>>>>, inList |-> FALSE])
        ELSE Then(ConvertLine(Trim(Head(lines)), inList))

\* convertTextToLatex, lines 134-237
convertTextToLatex(content) ==
    IF Trim(content) = <<>>
    THEN <<"\\begin{center}\\Large\\textbf{", "T", "}\\end{center}", "\n", "\n",
           "No content was generated.">>
    ELSE Join(ConvertLines(SplitLines(Trim(content)), FALSE), <<"\n", "\n">>)

InitConvert ==
    /\ InitJobState
    /\ docTexts = {}
    /\ CHUNK_SIZE = DefaultChunkSize
    /\ MAX_CHUNK_DEPTH = DefaultMaxChunkDepth
    /\ FALLBACK_MODELS = <<>>
    /\ GEMINI_API_KEY = TRUE
    /\ GEMINI_FALLBACK = FALSE
    /\ LATEX_KEEP_TEMP = FALSE
    /\ callArgs \in {[fn |-> "convertTextToLatex", content |-> c] : c \in TextContents}
    /\ callResult = Pending

\* convertTextToLatex(content) returns
ApplyConvertTextToLatex ==
    /\ callArgs.fn = "convertTextToLatex"
    /\ ~callResult.done
    /\ callResult' = Returned(convertTextToLatex(callArgs.content))
    /\ UNCHANGED <<pipeVars, cfgVars, extractorVars, callArgs>>

\* convertTextToLatex applied to every content
SpecConvert == InitConvert /\ [][ApplyConvertTextToLatex]_vars

\* what a line of the body is for its list structure
BodyLineKind(line) ==
    IF line = <<BeginList>> THEN "begin"
    ELSE IF line = <<EndList>> THEN "end"
    ELSE IF line # <<>> /\ line[1] = ItemCmd THEN "item"
    ELSE "text"

RECURSIVE BodyKinds(_)
\* the kinds of the lines of a body that are not empty
BodyKinds(lines) ==
    IF lines = <<>> THEN <<>>
    ELSE (IF Head(lines) = <<>> THEN <<>> ELSE <<BodyLineKind(Head(lines))>>)
         \o BodyKinds(Tail(lines))

\* a bullet line of the input
IsBulletLine(line) ==
    Trim(line) # <<>> /\ (Trim(line)[1] = "b" \/ IsDashBullet(Trim(line)))

RECURSIVE RunKinds(_, _)
\* the list structure the runs of bullet lines call for: a list begins with
\* the first bullet line of a run and ends before the line that ends the
\* run, or at the end of the input
RunKinds(lines, inRun) ==
    IF lines = <<>> THEN (IF inRun THEN <<"end">> ELSE <<>>)
    ELSE IF IsBulletLine(Head(lines))
    THEN (IF inRun THEN <<>> ELSE <<"begin">>) \o <<"item">> \o RunKinds(Tail(lines), TRUE)
    ELSE (IF inRun THEN <<"end">> ELSE <<>>)
         \o (IF Trim(Head(lines)) = <<>> THEN <<>> ELSE <<"text">>)
         \o RunKinds(Tail(lines), FALSE)

RECURSIVE ListsBalanced(_, _)
\* lists never nest, every item lies in an open list, every end closes an
\* open list and no list is open after the last line
ListsBalanced(kinds, open) ==
    IF kinds = <<>> THEN ~open
    ELSE IF Head(kinds) = "begin" THEN ~open /\ ListsBalanced(Tail(kinds), TRUE)
    ELSE IF Head(kinds) = "end" THEN open /\ ListsBalanced(Tail(kinds), FALSE)
    ELSE IF Head(kinds) = "item" THEN open /\ ListsBalanced(Tail(kinds), open)
    ELSE ListsBalanced(Tail(kinds), open)

\* C27: the body convertTextToLatex produces has balanced list blocks: a
\* list is opened exactly when a run of bullet lines begins and closed
\* exactly when the run ends, lists never nest, every item lies in an open
\* list and no list is left open at the end
C27_ListsBalanced ==
    (callArgs.fn = "convertTextToLatex" /\ callResult.done) =>
        /\ ListsBalanced(BodyKinds(SplitLines(callResult.value)), FALSE)
        /\ Trim(callArgs.content) # <<>> =>
               BodyKinds(SplitLines(callResult.value))
                   = RunKinds(SplitLines(Trim(callArgs.content)), FALSE)

\* two runs of bullet lines, the second one ended by the end of the input
C27_Witness ==
    /\ callArgs.fn = "convertTextToLatex"
    /\ callResult.done
    /\ BodyKinds(SplitLines(callResult.value))
           = <<"begin", "item", "end", "text", "begin", "item", "end">>


\* ------------------------------------------------------------------------
\* C28: a manual generate returns as the merge of chunk outputs (with the
\* primary model or with a fallback model) holds a non-empty output of every
\* chunk of the worksheet: an attempt in which a chunk came back empty does
\* not return
\* ------------------------------------------------------------------------
\* generate has just returned the merge of the outputs of its last attempt
MergeReturned ==
    /\ pc[1] = "w_compiling"
    /\ "generate" \in returned[1]
    /\ gen.chunks # <<>>
    /\ latexCode[1] = mergeChunkOutputs(gen.outputs)

C28_EveryChunkInMerge ==
    MergeReturned =>
        /\ Len(gen.outputs) = Len(gen.chunks)
        /\ \A i \in 1..Len(gen.outputs) : gen.outputs[i] # <<>>


\* ------------------------------------------------------------------------
\* StorageService.uploadFile, followed await by await
\* callResult.value holds the activation: where it stands, its attempt
\* counter and what the upload requests made so far returned.
\* ------------------------------------------------------------------------
\* largest STORAGE_UPLOAD_RETRIES followed
MaxUploadAttempts == 3

\* STORAGE_UPLOAD_RETRIES || 3
DefaultUploadAttempts == 3

NoStorageError == [status |-> 0, message |-> "none"]

\* the error field of what storage.upload returns: statusCode (0: none)
\* and what its message holds
StorageErrors ==
    [status : {0, 400, 408, 429, 500, 600}, message : {"other", "timeout", "gateway"}]

\* isRetryableStorageError taking every error with a status for retryable
isRetryableStorageErrorAnyStatus(error) ==
    error.status # 0 \/ error.message \in {"timeout", "timed out", "gateway"}

\* isRetryableStorageError, lines 180-186
isRetryableStorageError(error) ==
    \/ error.status = 408 \/ error.status = 429
    \/ error.status >= 500 /\ error.status < 600
    \/ error.message \in {"timeout", "timed out", "gateway"}

\* the activation of uploadFile before its loop
UploadEntered == [pc |-> "entered", attempt |-> 0, log |-> <<>>]

InitUpload ==
    /\ InitJobState
    /\ docTexts = {}
    /\ CHUNK_SIZE = DefaultChunkSize
    /\ MAX_CHUNK_DEPTH = DefaultMaxChunkDepth
    /\ FALLBACK_MODELS = <<>>
    /\ GEMINI_API_KEY = TRUE
    /\ GEMINI_FALLBACK = FALSE
    /\ LATEX_KEEP_TEMP = FALSE
    /\ callArgs \in {[fn |-> "uploadFile", maxAttempts |-> m] :
                        m \in (0..MaxUploadAttempts) \cup {DefaultUploadAttempts}}
    /\ callResult = [done |-> FALSE, value |-> UploadEntered]

\* the loop test of line 21 with the counter at attempt: the upload request
\* of line 22 is issued, or line 52 throws
LoopTest(a, attempt) ==
    IF attempt <= callArgs.maxAttempts
    THEN [done |-> FALSE, value |-> [a EXCEPT !.pc = "upload", !.attempt = attempt]]
    ELSE [done |-> TRUE, value |-> [a EXCEPT !.pc = "thrown", !.attempt = attempt]]

\* uploadFile is called, lines 15-21
UploadFileCalled ==
    /\ callArgs.fn = "uploadFile"
    /\ callResult.value.pc = "entered"
    /\ callResult' = LoopTest(callResult.value, 1)
    /\ UNCHANGED <<pipeVars, cfgVars, extractorVars, callArgs>>

\* the upload request returns, lines 22-48: uploadFile returns the path,
\* throws, or waits for the delay of line 48
UploadReturned ==
    /\ callArgs.fn = "uploadFile"
    /\ callResult.value.pc = "upload"
    /\ \E error \in {NoStorageError} \cup StorageErrors :
        \E a \in {[callResult.value EXCEPT !.log = Append(@, error)]} :
            callResult' =
                IF error = NoStorageError
                THEN [done |-> TRUE, value |-> [a EXCEPT !.pc = "returned"]]
                ELSE IF ~isRetryableStorageError(error) \/ a.attempt = callArgs.maxAttempts
                THEN [done |-> TRUE, value |-> [a EXCEPT !.pc = "thrown"]]
                ELSE [done |-> FALSE, value |-> [a EXCEPT !.pc = "delay"]]
    /\ UNCHANGED <<pipeVars, cfgVars, extractorVars, callArgs>>

\* the delay of lines 47-48 is over: the counter is stepped and the loop
\* test is made again
DelayElapsed ==
    /\ callArgs.fn = "uploadFile"
    /\ callResult.value.pc = "delay"
    /\ callResult' = LoopTest(callResult.value, callResult.value.attempt + 1)
    /\ UNCHANGED <<pipeVars, cfgVars, extractorVars, callArgs>>

NextUpload == UploadFileCalled \/ UploadReturned \/ DelayElapsed

\* one call of uploadFile for every STORAGE_UPLOAD_RETRIES up to
\* MaxUploadAttempts
SpecUpload == InitUpload /\ [][NextUpload]_vars

\* an error the retry is meant for: status 408, 429 or 5xx, or a timeout or
\* gateway message
WorthRetrying(error) ==
    \/ error.status \in {408, 429} \cup (500..599)
    \/ error.message \in {"timeout", "gateway"}

\* the upload requests issued so far
UploadAttempts ==
    Len(callResult.value.log) + (IF callResult.value.pc = "upload" THEN 1 ELSE 0)

\* C29: uploadFile makes at most maxAttempts upload requests; every request
\* but the first follows a retryable error; it returns at the first request
\* that succeeds and throws after an error that is not retryable or is the
\* error of request maxAttempts
C29_AttemptsBounded ==
    callArgs.fn = "uploadFile" =>
        /\ UploadAttempts <= callArgs.maxAttempts
        /\ \A i \in 1..(UploadAttempts - 1) :
              /\ callResult.value.log[i] # NoStorageError
              /\ WorthRetrying(callResult.value.log[i])
        /\ callResult.done = (callResult.value.pc \in {"returned", "thrown"})
        /\ callResult.value.pc = "returned" =>
              callResult.value.log[UploadAttempts] = NoStorageError
        /\ (callResult.value.pc = "thrown" /\ UploadAttempts > 0) =>
              /\ callResult.value.log[UploadAttempts] # NoStorageError
              /\ \/ ~WorthRetrying(callResult.value.log[UploadAttempts])
                 \/ UploadAttempts = callArgs.maxAttempts

\* the default three requests are made and the third one fails with a
\* retryable error
C29_Witness ==
    /\ callArgs.fn = "uploadFile"
    /\ callArgs.maxAttempts = DefaultUploadAttempts
    /\ callResult.value.pc = "thrown"
    /\ Len(callResult.value.log) = DefaultUploadAttempts
    /\ WorthRetrying(callResult.value.log[DefaultUploadAttempts])


\* ------------------------------------------------------------------------
\* FileController.deleteWorksheet beside the pipeline of the job it deletes
\* callResult.value holds the activation of deleteWorksheet: where it
\* stands and the output paths it read from the row.
\* ------------------------------------------------------------------------
\* deleteWorksheet before its first await
DeleteEntered == [pc |-> "entered", pdf |-> NULL, docx |-> NULL]

InitDelete ==
    /\ InitJobState
    /\ docTexts = {Worksheet(1)}
    /\ CHUNK_SIZE = DefaultChunkSize
    /\ MAX_CHUNK_DEPTH = DefaultMaxChunkDepth
    /\ FALLBACK_MODELS = <<>>
    /\ GEMINI_API_KEY = TRUE
    /\ GEMINI_FALLBACK = FALSE
    /\ LATEX_KEEP_TEMP = FALSE
    /\ callArgs = [fn |-> "deleteWorksheet", id |-> 1]
    /\ callResult = [done |-> FALSE, value |-> DeleteEntered]

\* the await that follows the deletion of a file: the next output path the
\* row held, lines 300-312, or the deletion of the row, line 315
AfterDeleteFile(d, file) ==
    IF file = "input" /\ d.pdf # NULL THEN "del_pdf"
    ELSE IF file \in {"input", "pdf"} /\ d.docx # NULL THEN "del_docx"
    ELSE "del_row"

\* deleteWorksheet, lines 281-296: the select of the row returns; 404 when
\* there is no row, else the paths are kept and the input file is deleted
DeleteFetched ==
    /\ callArgs.fn = "deleteWorksheet"
    /\ callResult.value.pc = "entered"
    /\ callResult' =
          IF ~record[callArgs.id].exists
          THEN [done |-> TRUE, value |-> [callResult.value EXCEPT !.pc = "not_found"]]
          ELSE [done |-> FALSE,
                value |-> [pc |-> "del_input",
                           pdf |-> record[callArgs.id].output_pdf_storage_path,
                           docx |-> record[callArgs.id].output_docx_storage_path]]
    /\ UNCHANGED <<pipeVars, cfgVars, extractorVars, callArgs>>

\* deleteWorksheet, lines 293-312: StorageService.deleteFile returns or
\* throws for the file awaited
DeleteFileDone ==
    /\ callArgs.fn = "deleteWorksheet"
    /\ callResult.value.pc \in {"del_input", "del_pdf", "del_docx"}
    /\ \E ok \in BOOLEAN :
        \E file \in {IF callResult.value.pc = "del_input" THEN "input"
                     ELSE IF callResult.value.pc = "del_pdf" THEN "pdf" ELSE "docx"} :
            IF ok
            THEN /\ storage' = [storage EXCEPT ![callArgs.id] = @ \ {file}]
                 /\ callResult' = [callResult EXCEPT
                                      !.value.pc = AfterDeleteFile(callResult.value, file)]
            ELSE /\ callResult' = [done |-> TRUE,
                                   value |-> [callResult.value EXCEPT !.pc = "failed"]]
                 /\ UNCHANGED storage
    /\ UNCHANGED <<pc, response, record, history, inflight, fileType, extractedText,
                   latexCode, outputResult, docxResult, ocrOut, caught, returned,
                   docTexts, fsVars, cfgVars, extractorVars, callArgs, gen>>

\* deleteWorksheet, lines 315-327: the delete of the row returns; success
\* is answered, or 500
DeleteRowDone ==
    /\ callArgs.fn = "deleteWorksheet"
    /\ callResult.value.pc = "del_row"
    /\ \E ok \in BOOLEAN :
        IF ok
        THEN /\ record' = [record EXCEPT ![callArgs.id] = NoRecord]
             /\ callResult' = [done |-> TRUE,
                               value |-> [callResult.value EXCEPT !.pc = "deleted"]]
        ELSE /\ callResult' = [done |-> TRUE,
                               value |-> [callResult.value EXCEPT !.pc = "failed"]]
             /\ UNCHANGED record
    /\ UNCHANGED <<pc, response, history, inflight, storage, fileType, extractedText,
                   latexCode, outputResult, docxResult, ocrOut, caught, returned,
                   docTexts, fsVars, cfgVars, extractorVars, callArgs, gen>>

NextDelete ==
    \/ PipelineStep(1)
    \/ GenerateDone(1)
    \/ DeleteFetched
    \/ DeleteFileDone
    \/ DeleteRowDone

\* one job and one deleteWorksheet request for it, started at any time
SpecDelete == InitDelete /\ [][NextDelete]_vars

\* C30: once deleteWorksheet has answered success for a job, the job has
\* no row and no input or output object in storage, in that state and in
\* every later one, whatever the pipeline of the job does meanwhile
C30_NothingLeftAfterDelete ==
    (callArgs.fn = "deleteWorksheet" /\ callResult.value.pc = "deleted") =>
        /\ ~record[callArgs.id].exists
        /\ storage[callArgs.id] = {}
====
